---- MODULE Spec2Model ----
(***************************************************************************)
(* The sparse Merkle tree engine of circuits/smt_exclusion/client          *)
(* (class SparseMerkleTree and the helpers around it), as a state machine. *)
(*                                                                         *)
(* Scaling.  The source works over the BN254 scalar field with a tree of   *)
(* depth 254, 32-byte public keys and base-256 bytes.  The model keeps the *)
(* algorithms and shrinks the numbers: TREE_DEPTH levels, a field of       *)
(* FIELD_MODULUS elements (FIELD_MODULUS < 2^TREE_DEPTH, as the BN254      *)
(* modulus is below 2^254), public keys of 2*HALF_BYTES bytes below        *)
(* BYTE_BASE.  As in the source there are more public keys than field      *)
(* elements, so two public keys can share a leaf index.                    *)
(***************************************************************************)
EXTENDS Integers, Sequences, FiniteSets

\* ---------------------------------------------------------------- bounds
\* TREE_DEPTH is 254 in the source (verify.ts:159).
TREE_DEPTH == 4
\* The order of the field the hash oracle works in (BN254's in the source).
FIELD_MODULUS == 13
\* A half of a public key: 16 bytes in the source (verify.ts:176).
HALF_BYTES == 2
\* Bytes are below 256 in the source (verify.ts:178).
BYTE_BASE == 3
\* How many calls of initPoseidon() the program makes (any number in the source).
MaxInitCalls == 3
\* The bytes of a root on chain: 32 in the source, where fieldToHex pads to
\* 64 hex digits, two a byte (verify.ts:203).
ROOT_BYTES == 2
\* The longest proof or public witness buffer (hundreds of bytes in the source).
MaxBufferLen == 2


VARIABLES
  leaves,         \* this.leaves: the JS Map, as its entries <<key, value>> in insertion order
  defaultHashes,  \* this.defaultHashes: defaultHashes[i + 1] is the source's defaultHashes[i]
  call,           \* the last call made on the engine: [op, pubkey, args]
  ret,            \* what that call returned
  thrown,         \* the message of the error that call threw, "" when it returned
  insertedIds,    \* history: the public keys insert was ever called with
  lastWrite,      \* history: leaf index -> [pubkey, value] of the latest insert at that index
  prevSame,       \* history: <<v>> when the last call is an insert and the call right
                  \* before it was an insert of the same public key storing v, else <<>>
  poseidonInstance, \* the module-level poseidonInstance: 0 for null, else the number of
                  \* the buildPoseidon() invocation that made the instance
  initCalls,      \* the calls of initPoseidon(): call -> [pc, built], where it stands
                  \* and the instance its buildPoseidon() made (0 for none)
  buildCount,     \* history: how many times buildPoseidon() was invoked
  assignCount,    \* history: how many times poseidonInstance was assigned
  fn,             \* the last application of a pure helper: [name, in, out]
  disk,           \* the circuit directory: which run's data each file holds, 0 for
                  \* a file that does not exist: [toml, gz, proof, pw]
  runs,           \* history: how many client-side calls have been started
  sent,           \* the transactions handed to sendAndConfirm, oldest first
  proc            \* the last client-side call: what it was given, the steps it took,
                  \* what it printed, returned or threw, and its exit status

treeVars == <<leaves, defaultHashes, call, ret, thrown, insertedIds, lastWrite, prevSame>>
hasherVars == <<poseidonInstance, initCalls, buildCount, assignCount>>
\* What a method of the engine does not touch.
clientVars == <<disk, runs, sent, proc>>
outsideTree == <<hasherVars, fn, clientVars>>

vars == <<leaves, defaultHashes, call, ret, thrown, insertedIds, lastWrite, prevSame,
          poseidonInstance, initCalls, buildCount, assignCount, fn,
          disk, runs, sent, proc>>

\* ------------------------------------------------------------ arithmetic
RECURSIVE Pow(_, _)
Pow(b, e) == IF e = 0 THEN 1 ELSE b * Pow(b, e - 1)

\* bigint.toString(): the decimal digits, most significant first.
RECURSIVE toString(_)
toString(n) == IF n < 10 THEN <<n>> ELSE Append(toString(n \div 10), n % 10)

\* BigInt(indexStr): the number a decimal string denotes.
RECURSIVE BigInt(_)
BigInt(str) ==
  IF Len(str) = 0 THEN 0
  ELSE 10 * BigInt(SubSeq(str, 1, Len(str) - 1)) + str[Len(str)]

\* ------------------------------------------------------------ hash oracle
\* poseidon([left, right]): the oracle reduces its inputs into the field and
\* returns a field element; the order of the arguments matters.
poseidonHash2(left, right) ==
  LET l == left % FIELD_MODULUS
      r == right % FIELD_MODULUS
  IN (l * l + 2 * r + l * r + 2) % FIELD_MODULUS

\* Mutant of bytes16ToFieldFrom: the bytes taken most significant first.
RECURSIVE bytes16ToFieldFrom_BigEndian(_, _, _, _, _)
bytes16ToFieldFrom_BigEndian(bytes, start, i, result, multiplier) ==
  IF i >= HALF_BYTES THEN result
  ELSE bytes16ToFieldFrom_BigEndian(bytes, start, i + 1,
                                    result * BYTE_BASE + bytes[start + i + 1],
                                    multiplier)

\* bytes16ToField(bytes, start): little-endian; start is the source's 0-based offset.
RECURSIVE bytes16ToFieldFrom(_, _, _, _, _)
bytes16ToFieldFrom(bytes, start, i, result, multiplier) ==
  IF i >= HALF_BYTES THEN result
  ELSE bytes16ToFieldFrom(bytes, start, i + 1,
                          result + bytes[start + i + 1] * multiplier,
                          multiplier * BYTE_BASE)

bytes16ToField(bytes, start) == bytes16ToFieldFrom(bytes, start, 0, 0, 1)

pubkeyToIndex(pubkey) ==
  LET low == bytes16ToField(pubkey, 0)
      high == bytes16ToField(pubkey, HALF_BYTES)
  IN poseidonHash2(low, high)

\* getPathBits(index): TREE_DEPTH bits, least significant first.
RECURSIVE getPathBitsFrom(_, _, _)
getPathBitsFrom(val, i, bits) ==
  IF i >= TREE_DEPTH THEN bits
  ELSE getPathBitsFrom(val \div 2, i + 1, Append(bits, val % 2 = 1))

getPathBits(index) == getPathBitsFrom(index, 0, <<>>)

\* ---------------------------------------------------------------- JS Map
\* The position of key k among the entries of m, 0 when m has no such key.
MapIndexOf(m, k) ==
  IF \E i \in 1..Len(m) : m[i][1] = k
  THEN CHOOSE i \in 1..Len(m) : m[i][1] = k /\ \A j \in 1..(i - 1) : m[j][1] # k
  ELSE 0

MapHas(m, k) == MapIndexOf(m, k) # 0

\* Mutant of MapGetOr: a missing key reads as 0 whatever the default given.
MapGetOr_ZeroDefault(m, k, dflt) == IF MapHas(m, k) THEN m[MapIndexOf(m, k)][2] ELSE 0

\* m.get(k) ?? dflt
MapGetOr(m, k, dflt) == IF MapHas(m, k) THEN m[MapIndexOf(m, k)][2] ELSE dflt

\* Mutant of MapSet: every set adds an entry, as pushing onto a list would.
MapSet_Append(m, k, v) == Append(m, <<k, v>>)

\* m.set(k, v): an existing key keeps its place, a new key goes last.
MapSet(m, k, v) ==
  IF MapHas(m, k)
  THEN [m EXCEPT ![MapIndexOf(m, k)] = <<k, v>>]
  ELSE Append(m, <<k, v>>)

\* ------------------------------------------------------------ constructor
\* Mutant of constructorFrom: the right child of an empty subtree taken as the
\* empty leaf instead of the level below.
RECURSIVE constructorFrom_RightIsLeaf(_, _)
constructorFrom_RightIsLeaf(dh, i) ==
  IF i > TREE_DEPTH THEN dh
  ELSE constructorFrom_RightIsLeaf(Append(dh, poseidonHash2(dh[i], dh[1])), i + 1)

\* The loop of the constructor from level i on: dh holds defaultHashes[0..i-1].
RECURSIVE constructorFrom(_, _)
constructorFrom(dh, i) ==
  IF i > TREE_DEPTH THEN dh
  ELSE LET prev == dh[i]   \* the source's defaultHashes[i - 1]
       IN constructorFrom(Append(dh, poseidonHash2(prev, prev)), i + 1)

\* Mutant of constructor: the ladder started from 1 instead of the empty leaf 0.
constructor_LeafOne == constructorFrom(<<1>>, 1)

constructor == constructorFrom(<<0>>, 1)

\* ---------------------------------------------------------------- getRoot
\* Mutant of childOrder: the child being processed always goes left.
childOrder_ValueFirst(isRightChild, value, sibling) == <<value, sibling>>

\* Mutant of childOrder: the sibling always goes left.
childOrder_SiblingFirst(isRightChild, value, sibling) == <<sibling, value>>

\* [left, right] = isRightChild ? [sibling, value] : [value, sibling]
childOrder(isRightChild, value, sibling) ==
  IF isRightChild THEN <<sibling, value>> ELSE <<value, sibling>>

\* Mutant of getRootNextLevel: a parent already computed from one child is
\* combined with the other child instead of being computed from the two.
RECURSIVE getRootNextLevel_Accumulate(_, _, _, _, _)
getRootNextLevel_Accumulate(currentLevel, dh, level, i, nextLevel) ==
  IF i > Len(currentLevel) THEN nextLevel
  ELSE LET value == currentLevel[i][2]
           index == BigInt(currentLevel[i][1])
           parentKey == toString(index \div 2)
           isRightChild == index % 2 = 1
           siblingIndex == IF isRightChild THEN index - 1 ELSE index + 1
           sibling == IF MapHas(nextLevel, parentKey)
                      THEN MapGetOr(nextLevel, parentKey, 0)
                      ELSE MapGetOr(currentLevel, toString(siblingIndex), dh[level + 1])
           lr == IF isRightChild THEN <<sibling, value>> ELSE <<value, sibling>>
       IN getRootNextLevel_Accumulate(currentLevel, dh, level, i + 1,
              MapSet(nextLevel, parentKey, poseidonHash2(lr[1], lr[2])))

\* Mutant of getRootNextLevel: a missing sibling read as the empty leaf's
\* default at every level.
RECURSIVE getRootNextLevel_LeafDefault(_, _, _, _, _)
getRootNextLevel_LeafDefault(currentLevel, dh, level, i, nextLevel) ==
  IF i > Len(currentLevel) THEN nextLevel
  ELSE LET value == currentLevel[i][2]
           index == BigInt(currentLevel[i][1])
           isRightChild == index % 2 = 1
           siblingIndex == IF isRightChild THEN index - 1 ELSE index + 1
           sibling == MapGetOr(currentLevel, toString(siblingIndex), dh[1])
           lr == childOrder(isRightChild, value, sibling)
       IN getRootNextLevel_LeafDefault(currentLevel, dh, level, i + 1,
              MapSet(nextLevel, toString(index \div 2), poseidonHash2(lr[1], lr[2])))

\* Mutant of getRootNextLevel: the parent stored under the child's index.
RECURSIVE getRootNextLevel_KeyedByChild(_, _, _, _, _)
getRootNextLevel_KeyedByChild(currentLevel, dh, level, i, nextLevel) ==
  IF i > Len(currentLevel) THEN nextLevel
  ELSE LET value == currentLevel[i][2]
           index == BigInt(currentLevel[i][1])
           isRightChild == index % 2 = 1
           siblingIndex == IF isRightChild THEN index - 1 ELSE index + 1
           sibling == MapGetOr(currentLevel, toString(siblingIndex), dh[level + 1])
           lr == childOrder(isRightChild, value, sibling)
       IN getRootNextLevel_KeyedByChild(currentLevel, dh, level, i + 1,
              MapSet(nextLevel, toString(index), poseidonHash2(lr[1], lr[2])))

\* One pass of getRoot's inner loop over currentLevel, from entry i on.
RECURSIVE getRootNextLevel(_, _, _, _, _)
getRootNextLevel(currentLevel, dh, level, i, nextLevel) ==
  IF i > Len(currentLevel) THEN nextLevel
  ELSE LET indexStr == currentLevel[i][1]
           value == currentLevel[i][2]
           index == BigInt(indexStr)
           parentIndex == index \div 2
           isRightChild == index % 2 = 1
           siblingIndex == IF isRightChild THEN index - 1 ELSE index + 1
           sibling == MapGetOr(currentLevel, toString(siblingIndex), dh[level + 1])
           lr == childOrder(isRightChild, value, sibling)
           parentValue == poseidonHash2(lr[1], lr[2])
       IN getRootNextLevel(currentLevel, dh, level, i + 1,
                           MapSet(nextLevel, toString(parentIndex), parentValue))

\* getRoot's outer loop from level on.
RECURSIVE getRootLevels(_, _, _)
getRootLevels(currentLevel, dh, level) ==
  IF level >= TREE_DEPTH THEN currentLevel
  ELSE getRootLevels(getRootNextLevel(currentLevel, dh, level, 1, <<>>), dh, level + 1)

getRoot(lv, dh) ==
  IF Len(lv) = 0 THEN dh[TREE_DEPTH + 1]
  ELSE MapGetOr(getRootLevels(lv, dh, 0), toString(0), dh[TREE_DEPTH + 1])

\* Mutant of getEmptyRoot: the ladder read one level too low.
getEmptyRoot_OneBelow(dh) == dh[TREE_DEPTH]

getEmptyRoot(dh) == dh[TREE_DEPTH + 1]

\* ------------------------------------------------------------ get, insert
\* Mutant of get: the leaf looked up under the low half of the public key
\* instead of its leaf index.
get_ByLowHalf(lv, pubkey) == MapGetOr(lv, toString(bytes16ToField(pubkey, 0)), 0)

get(lv, pubkey) == MapGetOr(lv, toString(pubkeyToIndex(pubkey)), 0)

isBlacklisted(lv, pubkey) == get(lv, pubkey) # 0

\* Mutant of insertValue: the default value is 0.
insertValue_DefaultZero(args) == IF Len(args) = 0 THEN 0 ELSE args[1]

\* insert(pubkey, value = 1n): args are the arguments after pubkey.
insertValue(args) == IF Len(args) = 0 THEN 1 ELSE args[1]

\* Mutant of insert: a leaf already materialized is kept, not overwritten.
insert_KeepFirst(lv, pubkey, args) ==
  IF MapHas(lv, toString(pubkeyToIndex(pubkey))) THEN lv
  ELSE MapSet(lv, toString(pubkeyToIndex(pubkey)), insertValue(args))

insert(lv, pubkey, args) ==
  MapSet(lv, toString(pubkeyToIndex(pubkey)), insertValue(args))

\* --------------------------------------------------------- getMerkleProof
\* pos | (1n << k)
setBit(pos, k) == IF (pos \div Pow(2, k)) % 2 = 1 THEN pos ELSE pos + Pow(2, k)

\* Mutant of posAtLevelFrom: bit i set at place i, not at place i - level.
RECURSIVE posAtLevelFrom_Unshifted(_, _, _, _)
posAtLevelFrom_Unshifted(pathBits, level, i, posAtLevel) ==
  IF i >= TREE_DEPTH THEN posAtLevel
  ELSE posAtLevelFrom_Unshifted(pathBits, level, i + 1,
                                IF pathBits[i + 1] THEN setBit(posAtLevel, i)
                                ELSE posAtLevel)

\* posAtLevel: the loop over the remaining path bits, from bit i on.
RECURSIVE posAtLevelFrom(_, _, _, _)
posAtLevelFrom(pathBits, level, i, posAtLevel) ==
  IF i >= TREE_DEPTH THEN posAtLevel
  ELSE posAtLevelFrom(pathBits, level, i + 1,
                      IF pathBits[i + 1] THEN setBit(posAtLevel, i - level)
                      ELSE posAtLevel)

\* Mutant of proofNextLevel: the sibling of a node never looked up in the
\* level, always the default.
RECURSIVE proofNextLevel_NoSiblingLookup(_, _, _, _, _, _)
proofNextLevel_NoSiblingLookup(currentLevel, dh, level, i, nextLevel, processedParents) ==
  IF i > Len(currentLevel) THEN nextLevel
  ELSE LET idx == BigInt(currentLevel[i][1])
           parentKey == toString(idx \div 2)
       IN IF parentKey \in processedParents
          THEN proofNextLevel_NoSiblingLookup(currentLevel, dh, level, i + 1, nextLevel,
                                              processedParents)
          ELSE LET lr == childOrder(idx % 2 = 1, currentLevel[i][2], dh[level + 1])
               IN proofNextLevel_NoSiblingLookup(currentLevel, dh, level, i + 1,
                      MapSet(nextLevel, parentKey, poseidonHash2(lr[1], lr[2])),
                      processedParents \cup {parentKey})

\* One pass of getMerkleProof's inner loop over currentLevel, from entry i on.
RECURSIVE proofNextLevel(_, _, _, _, _, _)
proofNextLevel(currentLevel, dh, level, i, nextLevel, processedParents) ==
  IF i > Len(currentLevel) THEN nextLevel
  ELSE LET indexStr == currentLevel[i][1]
           value == currentLevel[i][2]
           idx == BigInt(indexStr)
           parentIdx == idx \div 2
           parentKey == toString(parentIdx)
       IN IF parentKey \in processedParents
          THEN proofNextLevel(currentLevel, dh, level, i + 1, nextLevel, processedParents)
          ELSE LET isRightChild == idx % 2 = 1
                   sibIdx == IF isRightChild THEN idx - 1 ELSE idx + 1
                   sib == MapGetOr(currentLevel, toString(sibIdx), dh[level + 1])
                   lr == childOrder(isRightChild, value, sib)
               IN proofNextLevel(currentLevel, dh, level, i + 1,
                                 MapSet(nextLevel, parentKey, poseidonHash2(lr[1], lr[2])),
                                 processedParents \cup {parentKey})

\* Mutant of proofSibling: the sibling always taken from the default hashes.
proofSibling_DefaultOnly(currentLevel, dh, pathBits, level) == dh[level + 1]

\* The sibling getMerkleProof pushes at a level.
proofSibling(currentLevel, dh, pathBits, level) ==
  LET posAtLevel == posAtLevelFrom(pathBits, level, level, 0)
      isRight == pathBits[level + 1]
      siblingPos == IF isRight THEN posAtLevel - 1 ELSE posAtLevel + 1
  IN MapGetOr(currentLevel, toString(siblingPos), dh[level + 1])

\* Mutant of proofLevels: the loop ends as soon as a level holds no node.
RECURSIVE proofLevels_StopWhenEmpty(_, _, _, _, _)
proofLevels_StopWhenEmpty(currentLevel, dh, pathBits, level, siblings) ==
  IF level >= TREE_DEPTH \/ Len(currentLevel) = 0 THEN siblings
  ELSE proofLevels_StopWhenEmpty(proofNextLevel(currentLevel, dh, level, 1, <<>>, {}),
                                 dh, pathBits, level + 1,
                                 Append(siblings, proofSibling(currentLevel, dh, pathBits, level)))

\* getMerkleProof's outer loop from level on.
RECURSIVE proofLevels(_, _, _, _, _)
proofLevels(currentLevel, dh, pathBits, level, siblings) ==
  IF level >= TREE_DEPTH THEN siblings
  ELSE proofLevels(proofNextLevel(currentLevel, dh, level, 1, <<>>, {}), dh, pathBits,
                   level + 1,
                   Append(siblings, proofSibling(currentLevel, dh, pathBits, level)))

getMerkleProof(lv, dh, pubkey) ==
  LET index == pubkeyToIndex(pubkey)
      pathBits == getPathBits(index)
      leafValue == MapGetOr(lv, toString(index), 0)
  IN [siblings |-> proofLevels(lv, dh, pathBits, 0, <<>>), leafValue |-> leafValue]

\* ------------------------------------------------------------------ inputs
PUBKEY_BYTES == 2 * HALF_BYTES

\* The public keys the calls are made with, out of the BYTE_BASE^PUBKEY_BYTES
\* there are.  With the bounds as written IdMax and IdLow1 hash to the same leaf
\* index (there are more keys than field elements, so such pairs exist), that
\* index is the leaf-level neighbour of IdZero's, and IdLow2's has two digits.
IdZero == [i \in 1..PUBKEY_BYTES |-> 0]
IdMax == [i \in 1..PUBKEY_BYTES |-> BYTE_BASE - 1]
IdLow1 == [i \in 1..PUBKEY_BYTES |-> IF i = 1 THEN 1 ELSE 0]
IdLow2 == [i \in 1..PUBKEY_BYTES |-> IF i = 2 THEN 2 ELSE 0]

Identities == {IdZero, IdMax, IdLow1, IdLow2}

\* The leaf values insert is called with: the empty-leaf value, the default
\* value and one other.
Values == {0, 1, 2}

\* The argument lists of insert after pubkey: a value, or none.
InsertArgs == {<<v>> : v \in Values} \cup {<<>>}

NoCall == [op |-> "new", pubkey |-> <<>>, args |-> <<>>]

\* No pure helper applied yet.
NoFn == [name |-> "none", in |-> <<>>, out |-> <<>>]

\* The hash oracle after `await initPoseidon()` at the head of main: one call
\* of initPoseidon() ran to completion, the others were never made.
InitCallers == 1..MaxInitCalls
\* Before any client has run: no file in the circuit directory, nothing sent.
NoProc == [op |-> "none", in |-> <<>>, steps |-> <<>>, printed |-> <<>>,
           out |-> <<>>, thrown |-> "", exit |-> -1]
ClientIdle ==
  /\ disk = [toml |-> 0, gz |-> 0, proof |-> 0, pw |-> 0]
  /\ runs = 0
  /\ sent = <<>>
  /\ proc = NoProc

HasherReady ==
  /\ poseidonInstance = 1
  /\ initCalls = [c \in InitCallers |->
                    IF c = 1 THEN [pc |-> "done", built |-> 1]
                    ELSE [pc |-> "idle", built |-> 0]]
  /\ buildCount = 1
  /\ assignCount = 1

\* ------------------------------------------------------------------ state
Init ==
  /\ leaves = <<>>
  /\ defaultHashes = constructor
  /\ call = NoCall
  /\ ret = <<>>
  /\ thrown = ""
  /\ insertedIds = {}
  /\ lastWrite = <<>>
  /\ prevSame = <<>>
  /\ HasherReady
  /\ fn = NoFn
  /\ ClientIdle

Insert ==
  \E pubkey \in Identities, args \in InsertArgs :
    /\ leaves' = insert(leaves, pubkey, args)
    /\ call' = [op |-> "insert", pubkey |-> pubkey, args |-> args]
    /\ ret' = <<>>
    /\ insertedIds' = insertedIds \cup {pubkey}
    /\ lastWrite' = [i \in DOMAIN lastWrite \cup {pubkeyToIndex(pubkey)} |->
                       IF i = pubkeyToIndex(pubkey)
                       THEN [pubkey |-> pubkey, value |-> insertValue(args)]
                       ELSE lastWrite[i]]
    /\ prevSame' = IF call.op = "insert" /\ call.pubkey = pubkey
                   THEN <<insertValue(call.args)>> ELSE <<>>
    /\ UNCHANGED defaultHashes
    /\ thrown' = ""
    /\ UNCHANGED outsideTree

Get ==
  \E pubkey \in Identities :
    /\ call' = [op |-> "get", pubkey |-> pubkey, args |-> <<>>]
    /\ ret' = get(leaves, pubkey)
    /\ prevSame' = <<>>
    /\ UNCHANGED <<leaves, defaultHashes, insertedIds, lastWrite>>
    /\ thrown' = ""
    /\ UNCHANGED outsideTree

IsBlacklisted ==
  \E pubkey \in Identities :
    /\ call' = [op |-> "isBlacklisted", pubkey |-> pubkey, args |-> <<>>]
    /\ ret' = isBlacklisted(leaves, pubkey)
    /\ prevSame' = <<>>
    /\ UNCHANGED <<leaves, defaultHashes, insertedIds, lastWrite>>
    /\ thrown' = ""
    /\ UNCHANGED outsideTree

GetRoot ==
  /\ call' = [op |-> "getRoot", pubkey |-> <<>>, args |-> <<>>]
  /\ ret' = getRoot(leaves, defaultHashes)
  /\ prevSame' = <<>>
  /\ UNCHANGED <<leaves, defaultHashes, insertedIds, lastWrite>>
  /\ thrown' = ""
  /\ UNCHANGED outsideTree

\* Mutant of GetMerkleProof: the queried leaf is materialized in the leaf map.
GetMerkleProof_Materialize ==
  \E pubkey \in Identities :
    /\ call' = [op |-> "getMerkleProof", pubkey |-> pubkey, args |-> <<>>]
    /\ ret' = getMerkleProof(leaves, defaultHashes, pubkey)
    /\ leaves' = MapSet(leaves, toString(pubkeyToIndex(pubkey)), ret'.leafValue)
    /\ prevSame' = <<>>
    /\ UNCHANGED <<defaultHashes, insertedIds, lastWrite>>
    /\ thrown' = ""
    /\ UNCHANGED outsideTree

GetMerkleProof ==
  \E pubkey \in Identities :
    /\ call' = [op |-> "getMerkleProof", pubkey |-> pubkey, args |-> <<>>]
    /\ ret' = getMerkleProof(leaves, defaultHashes, pubkey)
    /\ prevSame' = <<>>
    /\ UNCHANGED <<leaves, defaultHashes, insertedIds, lastWrite>>
    /\ thrown' = ""
    /\ UNCHANGED outsideTree

GetEmptyRoot ==
  /\ call' = [op |-> "getEmptyRoot", pubkey |-> <<>>, args |-> <<>>]
  /\ ret' = getEmptyRoot(defaultHashes)
  /\ prevSame' = <<>>
  /\ UNCHANGED <<leaves, defaultHashes, insertedIds, lastWrite>>
  /\ thrown' = ""
  /\ UNCHANGED outsideTree

Next ==
  \/ Insert
  \/ Get
  \/ IsBlacklisted
  \/ GetRoot
  \/ GetMerkleProof
  \/ GetEmptyRoot

Spec == Init /\ [][Next]_vars

\* ========================================================================
\* Properties
\* ========================================================================

\* The verifier's recomputation of the root from a leaf value and a sibling
\* path: at level i, hash2(cur, sibling[i]) when bit i of the index is 0 and
\* hash2(sibling[i], cur) when it is 1.
RECURSIVE foldUp(_, _, _, _)
foldUp(cur, siblings, index, i) ==
  IF i >= Len(siblings) THEN cur
  ELSE foldUp(IF (index \div Pow(2, i)) % 2 = 0
              THEN poseidonHash2(cur, siblings[i + 1])
              ELSE poseidonHash2(siblings[i + 1], cur),
              siblings, index, i + 1)

\* The leaf indices that hold a leaf whose value is not 0.
NonZeroLeaves == {i \in DOMAIN lastWrite : lastWrite[i].value # 0}

\* Two materialized leaves meet below the root: some node under the root has
\* both children on the paths of materialized leaves.
RECURSIVE Ancestor(_, _)
Ancestor(index, level) == IF level = 0 THEN index ELSE Ancestor(index \div 2, level - 1)

SomePairMeets ==
  \E a, b \in DOMAIN lastWrite : \E level \in 0..(TREE_DEPTH - 2) :
    /\ Ancestor(a, level) # Ancestor(b, level)
    /\ Ancestor(a, level + 1) = Ancestor(b, level + 1)

\* ---- C1 ----------------------------------------------------------------
\* C1 as stated: for every public key that insert was never called with,
\* getMerkleProof returns leafValue 0 and siblings that fold from 0 to getRoot().
C1_ExclusionOfNeverInsertedIdentity ==
  (call.op = "getMerkleProof" /\ call.pubkey \notin insertedIds) =>
    /\ ret.leafValue = 0
    /\ foldUp(0, ret.siblings, pubkeyToIndex(call.pubkey), 0)
         = getRoot(leaves, defaultHashes)

\* C1 as amended: for every public key at whose leaf index no insert has written
\* (neither an insert of the key itself nor one of a key with the same leaf
\* index), getMerkleProof returns leafValue 0 and siblings that fold from 0 to
\* getRoot().
C1_ExclusionOfUnwrittenLeaf ==
  (call.op = "getMerkleProof" /\ pubkeyToIndex(call.pubkey) \notin DOMAIN lastWrite) =>
    /\ ret.leafValue = 0
    /\ Len(ret.siblings) = TREE_DEPTH
    /\ foldUp(0, ret.siblings, pubkeyToIndex(call.pubkey), 0)
         = getRoot(leaves, defaultHashes)

\* An exclusion proof was made in a tree of at least two non-zero leaves, for a
\* key whose leaf is unwritten.
C1_Witness ==
  /\ call.op = "getMerkleProof"
  /\ pubkeyToIndex(call.pubkey) \notin DOMAIN lastWrite
  /\ Cardinality(NonZeroLeaves) >= 2
  /\ ret.siblings # [i \in 1..TREE_DEPTH |-> defaultHashes[i]]

\* ---- C2 ----------------------------------------------------------------
\* C2: inclusion round-trip.  When the latest insert at X's leaf index was
\* insert(X, v), getMerkleProof(X) returns leafValue v and siblings that fold
\* from v, by the path bits of X's leaf index, to getRoot().
C2_InclusionRoundTrip ==
  (/\ call.op = "getMerkleProof"
   /\ pubkeyToIndex(call.pubkey) \in DOMAIN lastWrite
   /\ lastWrite[pubkeyToIndex(call.pubkey)].pubkey = call.pubkey) =>
    LET v == lastWrite[pubkeyToIndex(call.pubkey)].value
    IN /\ ret.leafValue = v
       /\ foldUp(v, ret.siblings, pubkeyToIndex(call.pubkey), 0)
            = getRoot(leaves, defaultHashes)

\* An inclusion proof for a key stored with a non-zero value, with other leaves
\* materialized and one of its siblings not a default hash.
C2_Witness ==
  /\ call.op = "getMerkleProof"
  /\ pubkeyToIndex(call.pubkey) \in DOMAIN lastWrite
  /\ lastWrite[pubkeyToIndex(call.pubkey)].pubkey = call.pubkey
  /\ lastWrite[pubkeyToIndex(call.pubkey)].value = 2
  /\ Cardinality(NonZeroLeaves) >= 3
  /\ ret.siblings # [i \in 1..TREE_DEPTH |-> defaultHashes[i]]

\* ---- C3 ----------------------------------------------------------------
\* C3: on an engine no insert was made on, getRoot() returns what
\* getEmptyRoot() returns, the top of the default-hash ladder; and whatever was
\* inserted, getEmptyRoot() returns the top of the ladder the constructor built.
C3_EmptyRoot ==
  /\ (call.op = "getRoot" /\ insertedIds = {}) =>
        /\ ret = getEmptyRoot(defaultHashes)
        /\ ret = constructor[TREE_DEPTH + 1]
  /\ call.op = "getEmptyRoot" => ret = constructor[TREE_DEPTH + 1]

\* getEmptyRoot was called on a tree with non-zero leaves, whose root differs.
C3_Witness ==
  /\ call.op = "getEmptyRoot"
  /\ Cardinality(NonZeroLeaves) >= 2
  /\ getRoot(leaves, defaultHashes) # ret

\* ---- C4 ----------------------------------------------------------------
\* C4: insertion idempotence.  An insert(X, v) made right after an insert(X, v)
\* leaves the leaf map and getRoot() as the first one left them.
C4_InsertIdempotent ==
  [][(/\ call.op = "insert"
      /\ call'.op = "insert"
      /\ call'.pubkey = call.pubkey
      /\ insertValue(call'.args) = insertValue(call.args)) =>
        /\ leaves' = leaves
        /\ getRoot(leaves', defaultHashes') = getRoot(leaves, defaultHashes)]_vars

\* The same insert was made twice in a row, on a tree holding other leaves.
C4_Witness ==
  /\ call.op = "insert"
  /\ prevSame = <<insertValue(call.args)>>
  /\ insertValue(call.args) # 0
  /\ Len(leaves) >= 2

\* ---- C5 ----------------------------------------------------------------
\* C5: overwrite semantics.  After insert(X, 1) followed by insert(X, 2),
\* get(X) is 2 and the leaf map holds one entry for X's leaf index; and the leaf
\* map never holds more entries than there are distinct inserted leaf indices.
C5_Overwrite ==
  /\ (call.op = "insert" /\ prevSame = <<1>> /\ insertValue(call.args) = 2) =>
        /\ get(leaves, call.pubkey) = 2
        /\ Cardinality({i \in 1..Len(leaves) :
                          leaves[i][1] = toString(pubkeyToIndex(call.pubkey))}) = 1
  /\ Len(leaves) <= Cardinality({pubkeyToIndex(id) : id \in insertedIds})

\* insert(X, 1) then insert(X, 2) were made on a tree holding other leaves.
C5_Witness ==
  /\ call.op = "insert"
  /\ prevSame = <<1>>
  /\ insertValue(call.args) = 2
  /\ Len(leaves) >= 2

\* ---- C6 ----------------------------------------------------------------
\* The value of the latest insert at the leaf index of pubkey, 0 when none.
StoredValue(pubkey) ==
  IF pubkeyToIndex(pubkey) \in DOMAIN lastWrite
  THEN lastWrite[pubkeyToIndex(pubkey)].value
  ELSE 0

\* C6: get(identity) returns the value of the latest insert at the identity's
\* leaf index, 0 when there was none; isBlacklisted(identity) is true exactly
\* when that value is not 0; so right after insert(key, 1) isBlacklisted(key)
\* is true.
C6_GetAndIsBlacklisted ==
  /\ call.op = "get" => ret = StoredValue(call.pubkey)
  /\ call.op = "isBlacklisted" => (ret <=> StoredValue(call.pubkey) # 0)
  /\ \A id \in Identities :
       /\ get(leaves, id) = StoredValue(id)
       /\ isBlacklisted(leaves, id) <=> get(leaves, id) # 0
  /\ (call.op = "insert" /\ insertValue(call.args) = 1) =>
        isBlacklisted(leaves, call.pubkey)

\* get returned a value that another public key, with the same leaf index,
\* stored over this public key's own.
C6_Witness ==
  /\ call.op = "get"
  /\ call.pubkey \in insertedIds
  /\ lastWrite[pubkeyToIndex(call.pubkey)].pubkey # call.pubkey
  /\ ret = 2
  /\ Len(leaves) >= 2

\* ---- C7 ----------------------------------------------------------------
\* The ladder is well formed: TREE_DEPTH + 1 entries, D[0] = 0 and each next
\* entry the hash of the one before with itself.
LadderWellFormed ==
  /\ Len(defaultHashes) = TREE_DEPTH + 1
  /\ defaultHashes[1] = 0
  /\ \A i \in 1..TREE_DEPTH :
       defaultHashes[i + 1] = poseidonHash2(defaultHashes[i], defaultHashes[i])

\* C7: the default-hash ladder has TREE_DEPTH + 1 entries (255 in the source),
\* D[0] = 0 and D[i] = hash2(D[i-1], D[i-1]) for i in 1..TREE_DEPTH, in every
\* state, and no step (insert, get, isBlacklisted, getRoot, getMerkleProof,
\* getEmptyRoot) changes any entry.
C7_LadderFixed == []LadderWellFormed /\ [][defaultHashes' = defaultHashes]_vars

\* Inserts and a proof query were made.
C7_Witness ==
  /\ call.op = "getMerkleProof"
  /\ Cardinality(NonZeroLeaves) >= 2

\* ---- C8 ----------------------------------------------------------------
\* The leaf maps that hold the entries of m in another insertion order: each is
\* what an engine holds after the same inserts made in that order.
Reorderings(m) ==
  {[i \in 1..Len(m) |-> m[f[i]]] :
     f \in {g \in [1..Len(m) -> 1..Len(m)] : \A i, j \in 1..Len(m) : g[i] = g[j] => i = j}}

\* C8: getRoot() depends on the index-to-value mapping alone: whatever calls
\* were made before, the value a getRoot() call returns is the one getRoot()
\* returns on every leaf map that holds the same entries inserted in another
\* order.
C8_RootOfMappingOnly ==
  call.op = "getRoot" =>
    \A m \in Reorderings(leaves) : ret = getRoot(m, defaultHashes)

\* getRoot was called on a tree of three non-zero leaves, two of them the
\* children of one node.
C8_Witness ==
  /\ call.op = "getRoot"
  /\ Cardinality(NonZeroLeaves) >= 3
  /\ SomePairMeets
  /\ Cardinality(Reorderings(leaves)) >= 6

\* ---- C9 ----------------------------------------------------------------
QueryOps == {"get", "isBlacklisted", "getRoot", "getMerkleProof", "getEmptyRoot"}

\* C9: queries are read-only.  getRoot, getMerkleProof, get, isBlacklisted and
\* getEmptyRoot leave the leaf map as it was, and a getRoot() made right after a
\* getRoot() returns the same value.
C9_QueriesReadOnly ==
  [][/\ call'.op \in QueryOps => leaves' = leaves
     /\ (call.op = "getRoot" /\ call'.op = "getRoot") => ret' = ret]_vars

\* A proof query was made for a public key whose leaf is not materialized, on a
\* tree that holds leaves.
C9_Witness ==
  /\ call.op = "getMerkleProof"
  /\ ~MapHas(leaves, toString(pubkeyToIndex(call.pubkey)))
  /\ Len(leaves) >= 2

\* ---- C10 ---------------------------------------------------------------
\* C10: insert(identity, value) changes the leaf entry keyed by identity's leaf
\* index and nothing else: every other entry and the default-hash ladder stay
\* as they were, the entry holds value, and it holds 1 when value is omitted.
C10_InsertFrame ==
  [][call'.op = "insert" =>
       LET key == toString(pubkeyToIndex(call'.pubkey))
       IN /\ \A j \in 1..Len(leaves) : leaves[j][1] # key =>
               j <= Len(leaves') /\ leaves'[j] = leaves[j]
          /\ \A j \in 1..Len(leaves') : leaves'[j][1] # key =>
               j <= Len(leaves) /\ leaves[j] = leaves'[j]
          /\ Cardinality({j \in 1..Len(leaves') : leaves'[j][1] = key}) = 1
          /\ MapGetOr(leaves', key, 0) = (IF call'.args = <<>> THEN 1 ELSE call'.args[1])
          /\ defaultHashes' = defaultHashes]_vars

\* insert was called without a value on a tree holding other leaves.
C10_Witness ==
  /\ call.op = "insert"
  /\ call.args = <<>>
  /\ Len(leaves) >= 3

\* ========================================================================
\* Public keys of any length
\* ========================================================================

\* bytes16ToField reads bytes[start + i] for i < 16: an index past the end of
\* the array reads undefined, and BigInt(undefined) throws a TypeError.
bytes16ToFieldThrows(bytes, start) == start + HALF_BYTES > Len(bytes)

\* pubkeyToIndex reads the two halves before it hashes.
pubkeyToIndexThrows(pubkey) ==
  bytes16ToFieldThrows(pubkey, 0) \/ bytes16ToFieldThrows(pubkey, HALF_BYTES)

TypeError == "TypeError: Cannot convert undefined to a BigInt"

\* Keys that are no public keys: none, a half, one byte short, one byte long
\* (IdZero followed by one more byte).
IdEmpty == <<>>
IdHalf == [i \in 1..HALF_BYTES |-> 1]
IdShort == [i \in 1..(PUBKEY_BYTES - 1) |-> 0]
IdLong == [i \in 1..(PUBKEY_BYTES + 1) |-> IF i = PUBKEY_BYTES + 1 THEN 1 ELSE 0]

AnyLengthKeys == {IdEmpty, IdHalf, IdShort, IdLong, IdZero, IdLow2}

\* A call whose pubkeyToIndex threw: the method is left before it touches the
\* engine.
ThrowFrom(op, pubkey, args) ==
  /\ call' = [op |-> op, pubkey |-> pubkey, args |-> args]
  /\ thrown' = TypeError
  /\ ret' = <<>>
  /\ prevSame' = <<>>
  /\ UNCHANGED <<leaves, defaultHashes, insertedIds, lastWrite>>
  /\ UNCHANGED outsideTree

InsertAnyLength ==
  \E pubkey \in AnyLengthKeys, args \in InsertArgs :
    IF pubkeyToIndexThrows(pubkey) THEN ThrowFrom("insert", pubkey, args)
    ELSE
      /\ leaves' = insert(leaves, pubkey, args)
      /\ call' = [op |-> "insert", pubkey |-> pubkey, args |-> args]
      /\ ret' = <<>>
      /\ thrown' = ""
      /\ insertedIds' = insertedIds \cup {pubkey}
      /\ lastWrite' = [i \in DOMAIN lastWrite \cup {pubkeyToIndex(pubkey)} |->
                         IF i = pubkeyToIndex(pubkey)
                         THEN [pubkey |-> pubkey, value |-> insertValue(args)]
                         ELSE lastWrite[i]]
      /\ prevSame' = IF call.op = "insert" /\ call.pubkey = pubkey /\ thrown = ""
                     THEN <<insertValue(call.args)>> ELSE <<>>
      /\ UNCHANGED defaultHashes
      /\ UNCHANGED outsideTree

GetAnyLength ==
  \E pubkey \in AnyLengthKeys :
    IF pubkeyToIndexThrows(pubkey) THEN ThrowFrom("get", pubkey, <<>>)
    ELSE
      /\ call' = [op |-> "get", pubkey |-> pubkey, args |-> <<>>]
      /\ ret' = get(leaves, pubkey)
      /\ thrown' = ""
      /\ prevSame' = <<>>
      /\ UNCHANGED <<leaves, defaultHashes, insertedIds, lastWrite>>
      /\ UNCHANGED outsideTree

GetMerkleProofAnyLength ==
  \E pubkey \in AnyLengthKeys :
    IF pubkeyToIndexThrows(pubkey) THEN ThrowFrom("getMerkleProof", pubkey, <<>>)
    ELSE
      /\ call' = [op |-> "getMerkleProof", pubkey |-> pubkey, args |-> <<>>]
      /\ ret' = getMerkleProof(leaves, defaultHashes, pubkey)
      /\ thrown' = ""
      /\ prevSame' = <<>>
      /\ UNCHANGED <<leaves, defaultHashes, insertedIds, lastWrite>>
      /\ UNCHANGED outsideTree

NextAnyLength ==
  \/ InsertAnyLength
  \/ GetAnyLength
  \/ GetMerkleProofAnyLength

SpecAnyLength == Init /\ [][NextAnyLength]_vars

\* ---- C11 ---------------------------------------------------------------
\* C11: insert, get and getMerkleProof fail with an error for every public key
\* whose length is not PUBKEY_BYTES, shorter or longer, and no leaf is ever
\* written by such a call.
C11_WrongLengthFails ==
  /\ (call.op \in {"insert", "get", "getMerkleProof"}
      /\ Len(call.pubkey) # PUBKEY_BYTES) => thrown # ""
  /\ \A i \in DOMAIN lastWrite : Len(lastWrite[i].pubkey) = PUBKEY_BYTES

\* ========================================================================
\* The hash oracle's initialization
\* ========================================================================

\* getPoseidon(): throws while poseidonInstance is null.
getPoseidonThrows_Never(instance) == FALSE

getPoseidonThrows(instance) == instance = 0

PoseidonError == "Poseidon not initialized. Call initPoseidon() first."

\* The arguments poseidonHash2 is called with directly.
HashArgs == {0, 1, FIELD_MODULUS - 1}

\* Nothing was initialized or constructed yet: poseidonInstance is null and
\* there is no engine (an engine's defaultHashes is never empty).
InitHasher ==
  /\ leaves = <<>>
  /\ defaultHashes = <<>>
  /\ call = NoCall
  /\ ret = <<>>
  /\ thrown = ""
  /\ insertedIds = {}
  /\ lastWrite = <<>>
  /\ prevSame = <<>>
  /\ poseidonInstance = 0
  /\ initCalls = [c \in InitCallers |-> [pc |-> "idle", built |-> 0]]
  /\ buildCount = 0
  /\ assignCount = 0
  /\ fn = NoFn
  /\ ClientIdle

\* initPoseidon() up to its await: the test of poseidonInstance and, when it
\* is null, the invocation of buildPoseidon(), whose promise the call awaits.
InitPoseidonCall ==
  \E c \in InitCallers :
    /\ initCalls[c].pc = "idle"
    /\ IF poseidonInstance = 0
       THEN /\ buildCount' = buildCount + 1
            /\ initCalls' = [initCalls EXCEPT ![c] = [pc |-> "awaiting", built |-> buildCount + 1]]
       ELSE /\ buildCount' = buildCount
            /\ initCalls' = [initCalls EXCEPT ![c] = [pc |-> "done", built |-> 0]]
    /\ UNCHANGED <<poseidonInstance, assignCount, fn, clientVars>>
    /\ UNCHANGED treeVars

\* initPoseidon() after its await: the built instance is assigned.
InitPoseidonResume ==
  \E c \in InitCallers :
    /\ initCalls[c].pc = "awaiting"
    /\ poseidonInstance' = initCalls[c].built
    /\ assignCount' = assignCount + 1
    /\ initCalls' = [initCalls EXCEPT ![c].pc = "done"]
    /\ UNCHANGED <<buildCount, fn, clientVars>>
    /\ UNCHANGED treeVars

\* new SparseMerkleTree(): the constructor's first poseidonHash2 asks for the
\* hasher; when that throws no instance comes into being.
Construct ==
  /\ call' = [op |-> "new SparseMerkleTree", pubkey |-> <<>>, args |-> <<>>]
  /\ IF getPoseidonThrows(poseidonInstance)
     THEN /\ thrown' = PoseidonError
          /\ UNCHANGED <<leaves, defaultHashes>>
     ELSE /\ thrown' = ""
          /\ leaves' = <<>>
          /\ defaultHashes' = constructor
  /\ ret' = <<>>
  /\ insertedIds' = {}
  /\ lastWrite' = <<>>
  /\ prevSame' = <<>>
  /\ UNCHANGED outsideTree

PubkeyToIndexCall ==
  \E pubkey \in Identities :
    /\ call' = [op |-> "pubkeyToIndex", pubkey |-> pubkey, args |-> <<>>]
    /\ IF getPoseidonThrows(poseidonInstance)
       THEN thrown' = PoseidonError /\ ret' = <<>>
       ELSE thrown' = "" /\ ret' = pubkeyToIndex(pubkey)
    /\ prevSame' = <<>>
    /\ UNCHANGED <<leaves, defaultHashes, insertedIds, lastWrite>>
    /\ UNCHANGED outsideTree

PoseidonHash2Call ==
  \E left \in HashArgs, right \in HashArgs :
    /\ call' = [op |-> "poseidonHash2", pubkey |-> <<>>, args |-> <<left, right>>]
    /\ IF getPoseidonThrows(poseidonInstance)
       THEN thrown' = PoseidonError /\ ret' = <<>>
       ELSE thrown' = "" /\ ret' = poseidonHash2(left, right)
    /\ prevSame' = <<>>
    /\ UNCHANGED <<leaves, defaultHashes, insertedIds, lastWrite>>
    /\ UNCHANGED outsideTree

NextHasher ==
  \/ InitPoseidonCall
  \/ InitPoseidonResume
  \/ Construct
  \/ PubkeyToIndexCall
  \/ PoseidonHash2Call

SpecHasher == InitHasher /\ [][NextHasher]_vars

HasherOps == {"new SparseMerkleTree", "pubkeyToIndex", "poseidonHash2"}

C13_InitOnce ==
  /\ [](buildCount <= 1 /\ assignCount <= 1)
  /\ [][poseidonInstance # 0 => poseidonInstance' = poseidonInstance]_vars

\* ========================================================================
\* Proofs: their length, the empty tree, the order of the hash arguments
\* ========================================================================

\* ---- C14 ---------------------------------------------------------------
\* C14: getMerkleProof returns exactly TREE_DEPTH siblings, for every public
\* key and however many leaves the tree holds.
C14_ProofLength == call.op = "getMerkleProof" => Len(ret.siblings) = TREE_DEPTH

\* A proof was asked of a tree of three leaves (one of none and one of a single
\* leaf are asked on the way there).
C14_Witness ==
  /\ call.op = "getMerkleProof"
  /\ Len(leaves) >= 3
  /\ Len(ret.siblings) = TREE_DEPTH

\* ---- C15 ---------------------------------------------------------------
\* C15: on the empty tree getMerkleProof returns, for every public key,
\* leafValue 0 and at each level i the default hash of that level as the
\* sibling, and folding the siblings up from 0 along the key's index bits gives
\* getEmptyRoot().
C15_EmptyTreeProof ==
  (call.op = "getMerkleProof" /\ leaves = <<>>) =>
    /\ ret.leafValue = 0
    /\ Len(ret.siblings) = TREE_DEPTH
    /\ \A i \in 0..(TREE_DEPTH - 1) : ret.siblings[i + 1] = defaultHashes[i + 1]
    /\ foldUp(0, ret.siblings, pubkeyToIndex(call.pubkey), 0) = getEmptyRoot(defaultHashes)

\* A proof was asked of the empty tree for a public key whose index has both
\* 0 and 1 among its bits.
C15_Witness ==
  /\ call.op = "getMerkleProof"
  /\ leaves = <<>>
  /\ \E i, j \in 1..TREE_DEPTH :
       getPathBits(pubkeyToIndex(call.pubkey))[i] # getPathBits(pubkeyToIndex(call.pubkey))[j]

\* ---- C17 ---------------------------------------------------------------
\* The verifier's recomputation, level by level.  indexBit is bit i of the leaf
\* index; argsAt is the pair hashed at a level; curAt is the running value
\* entering level i (the leaf value at level 0, the root at level TREE_DEPTH).
indexBit(index, i) == (index \div Pow(2, i)) % 2

argsAt(bit, cur, sibling) == IF bit = 0 THEN <<cur, sibling>> ELSE <<sibling, cur>>

RECURSIVE curAt(_, _, _, _)
curAt(leafValue, siblings, index, i) ==
  IF i = 0 THEN leafValue
  ELSE LET a == argsAt(indexBit(index, i - 1),
                       curAt(leafValue, siblings, index, i - 1), siblings[i])
       IN poseidonHash2(a[1], a[2])

\* The same recomputation with the two arguments exchanged at level at, and at
\* that level only: the pair hashed at level i, and the running value entering
\* level i.
RECURSIVE swappedCurAt(_, _, _, _, _)
swappedArgsAt(leafValue, siblings, index, at, i) ==
  LET a == argsAt(indexBit(index, i),
                  swappedCurAt(leafValue, siblings, index, at, i), siblings[i + 1])
  IN IF i = at THEN <<a[2], a[1]>> ELSE a

swappedCurAt(leafValue, siblings, index, at, i) ==
  IF i <= at THEN curAt(leafValue, siblings, index, i)
  ELSE LET a == swappedArgsAt(leafValue, siblings, index, at, i - 1)
       IN poseidonHash2(a[1], a[2])

\* The hash oracle returns one value for the two different pairs the two
\* recomputations hash at level i.
OracleCollidesAt(leafValue, siblings, index, at, i) ==
  LET a == argsAt(indexBit(index, i), curAt(leafValue, siblings, index, i), siblings[i + 1])
      b == swappedArgsAt(leafValue, siblings, index, at, i)
  IN a # b /\ poseidonHash2(a[1], a[2]) = poseidonHash2(b[1], b[2])

\* C17 as claimed: for the proof of any public key in any state and any level,
\* the recomputation with the arguments exchanged at that level differs from
\* getRoot().
C17_SwapChangesRoot ==
  call.op = "getMerkleProof" =>
    \A at \in 0..(TREE_DEPTH - 1) :
      swappedCurAt(ret.leafValue, ret.siblings, pubkeyToIndex(call.pubkey), at, TREE_DEPTH)
        # getRoot(leaves, defaultHashes)

\* C17 as amended: exchanging the two arguments at a level where they are equal
\* gives getRoot() again; at any other level it gives a value different from
\* getRoot() unless the hash oracle returns the same value for two different
\* pairs at that level or above.
C17_SwapChangesRootUnlessEqual ==
  call.op = "getMerkleProof" =>
    \A at \in 0..(TREE_DEPTH - 1) :
      LET index == pubkeyToIndex(call.pubkey)
          swapped == swappedCurAt(ret.leafValue, ret.siblings, index, at, TREE_DEPTH)
          equalArgs == curAt(ret.leafValue, ret.siblings, index, at) = ret.siblings[at + 1]
      IN /\ equalArgs => swapped = getRoot(leaves, defaultHashes)
         /\ swapped = getRoot(leaves, defaultHashes) =>
              \/ equalArgs
              \/ \E i \in at..(TREE_DEPTH - 1) :
                   OracleCollidesAt(ret.leafValue, ret.siblings, index, at, i)

\* A proof on a tree with leaves where exchanging the arguments at one level
\* changes the recomputed root and at another level, where they are equal,
\* does not.
C17_Witness ==
  /\ call.op = "getMerkleProof"
  /\ leaves # <<>>
  /\ LET index == pubkeyToIndex(call.pubkey)
     IN /\ \E at \in 0..(TREE_DEPTH - 1) :
             swappedCurAt(ret.leafValue, ret.siblings, index, at, TREE_DEPTH)
               # getRoot(leaves, defaultHashes)
        /\ \E at \in 0..(TREE_DEPTH - 1) :
             curAt(ret.leafValue, ret.siblings, index, at) = ret.siblings[at + 1]

\* ========================================================================
\* Pure helpers: hashBytes32, fieldToHex, createInstructionData
\* ========================================================================

\* verify_signer/client/proof.helper.ts carries its own copies of the hash
\* helpers; poseidonHash2 there calls the same library oracle.
signer_poseidonHash2(left, right) == poseidonHash2(left, right)

RECURSIVE signer_bytes16ToFieldFrom(_, _, _, _, _)
signer_bytes16ToFieldFrom(bytes, start, i, result, multiplier) ==
  IF i >= HALF_BYTES THEN result
  ELSE signer_bytes16ToFieldFrom(bytes, start, i + 1,
                                 result + bytes[start + i + 1] * multiplier,
                                 multiplier * BYTE_BASE)

signer_bytes16ToField(bytes, start) == signer_bytes16ToFieldFrom(bytes, start, 0, 0, 1)

hashBytes32(bytes) ==
  LET low == signer_bytes16ToField(bytes, 0)
      high == signer_bytes16ToField(bytes, HALF_BYTES)
  IN signer_poseidonHash2(low, high)

\* The helpers keep no state, so a behaviour applies one of them once: what an
\* application gives does not depend on the applications before it.
\* Every public key there is.
AllKeys == [1..PUBKEY_BYTES -> 0..(BYTE_BASE - 1)]

ApplyPubkeyToIndex ==
  \E bytes \in AllKeys :
    /\ fn = NoFn
    /\ fn' = [name |-> "pubkeyToIndex", in |-> bytes, out |-> pubkeyToIndex(bytes)]
    /\ UNCHANGED <<treeVars, hasherVars, clientVars>>

ApplyHashBytes32 ==
  \E bytes \in AllKeys :
    /\ fn = NoFn
    /\ fn' = [name |-> "hashBytes32", in |-> bytes, out |-> hashBytes32(bytes)]
    /\ UNCHANGED <<treeVars, hasherVars, clientVars>>

\* The digits of bigint.toString(16), by value.
HexDigits == <<"0", "1", "2", "3", "4", "5", "6", "7",
               "8", "9", "a", "b", "c", "d", "e", "f">>
HexRadix == Len(HexDigits)

\* f.toString(16): the hex digits, most significant first.
RECURSIVE toString16(_)
toString16(n) ==
  IF n < HexRadix THEN <<HexDigits[n + 1]>>
  ELSE Append(toString16(n \div HexRadix), HexDigits[(n % HexRadix) + 1])

\* Mutant of padStart: the string handed back as it is.
padStart_Nothing(str, targetLength, padString) == str

\* str.padStart(targetLength, padString) for a padString of one character.
RECURSIVE padStart(_, _, _)
padStart(str, targetLength, padString) ==
  IF Len(str) >= targetLength THEN str
  ELSE padStart(<<padString>> \o str, targetLength, padString)

fieldToHex(f) == <<"0", "x">> \o padStart(toString16(f), 2 * ROOT_BYTES, "0")

\* parseInt(byte, 16) of a string of hex digits.
RECURSIVE parseInt16(_)
parseInt16(str) ==
  IF Len(str) = 0 THEN 0
  ELSE HexRadix * parseInt16(SubSeq(str, 1, Len(str) - 1))
       + (CHOOSE d \in 0..(HexRadix - 1) : HexDigits[d + 1] = str[Len(str)])

\* new Uint8Array(hex.slice(2).match(/.{2}/g).map((byte) => parseInt(byte, 16))):
\* the digits after "0x" taken two by two.
smtRootBuffer(smtRootHex) ==
  LET digits == SubSeq(smtRootHex, 3, Len(smtRootHex))
  IN [k \in 1..(Len(digits) \div 2) |-> parseInt16(SubSeq(digits, 2 * k - 1, 2 * k))]

\* The field values fieldToHex is applied to: those with at most two digits
\* that are not 0, one of them the last, and those whose digits are all f.
HexInputs ==
  {a * Pow(HexRadix, i) + b :
     a \in 0..(HexRadix - 1), b \in 0..(HexRadix - 1), i \in 0..(2 * ROOT_BYTES - 1)}
  \cup {Pow(HexRadix, k) - 1 : k \in 0..(2 * ROOT_BYTES)}

ApplyFieldToHex ==
  \E f \in HexInputs :
    /\ fn = NoFn
    /\ fn' = [name |-> "fieldToHex", in |-> f,
              out |-> [hex |-> fieldToHex(f), buffer |-> smtRootBuffer(fieldToHex(f))]]
    /\ UNCHANGED <<treeVars, hasherVars, clientVars>>

\* Mutant of createInstructionData: the public witness put first.
createInstructionData_WitnessFirst(proofResult) ==
  proofResult.publicWitness \o proofResult.proof

\* Buffer.concat([proofResult.proof, proofResult.publicWitness])
createInstructionData(proofResult) == proofResult.proof \o proofResult.publicWitness

BufferBytes == {0, 1, 255}
Buffers == UNION {[1..n -> BufferBytes] : n \in 0..MaxBufferLen}

ApplyCreateInstructionData ==
  \E proof \in Buffers, publicWitness \in Buffers :
    LET proofResult == [proof |-> proof, publicWitness |-> publicWitness]
    IN /\ fn = NoFn
       /\ fn' = [name |-> "createInstructionData", in |-> proofResult,
                 out |-> createInstructionData(proofResult)]
       /\ UNCHANGED <<treeVars, hasherVars, clientVars>>

\* The head of a pass of getMerkleProof's level loop: the position on the path
\* at the level, the side it is on, and the position of its sibling.
ApplyPosAtLevel ==
  \E index \in 0..(Pow(2, TREE_DEPTH) - 1), level \in 0..(TREE_DEPTH - 1) :
    LET pathBits == getPathBits(index)
        posAtLevel == posAtLevelFrom(pathBits, level, level, 0)
        isRight == pathBits[level + 1]
        siblingPos == IF isRight THEN posAtLevel - 1 ELSE posAtLevel + 1
    IN /\ fn = NoFn
       /\ fn' = [name |-> "posAtLevel", in |-> [index |-> index, level |-> level],
                 out |-> [posAtLevel |-> posAtLevel, isRight |-> isRight,
                          siblingPos |-> siblingPos]]
       /\ UNCHANGED <<treeVars, hasherVars, clientVars>>

NextFn ==
  \/ ApplyPubkeyToIndex
  \/ ApplyHashBytes32
  \/ ApplyFieldToHex
  \/ ApplyCreateInstructionData
  \/ ApplyPosAtLevel

SpecFn == Init /\ [][NextFn]_vars

\* The number a sequence of digits below base denotes, least significant
\* first (the sum of digits[k] * base^(k-1)) and most significant first.
RECURSIVE LittleEndian(_, _)
LittleEndian(digits, base) ==
  IF Len(digits) = 0 THEN 0
  ELSE digits[1] + base * LittleEndian(SubSeq(digits, 2, Len(digits)), base)

RECURSIVE BigEndian(_, _)
BigEndian(digits, base) ==
  IF Len(digits) = 0 THEN 0
  ELSE base * BigEndian(SubSeq(digits, 1, Len(digits) - 1), base) + digits[Len(digits)]

\* ---- C18 ---------------------------------------------------------------
\* C18: pubkeyToIndex(pubkey) is hash2(low, high), low the little-endian number
\* of the first HALF_BYTES bytes and high that of the next HALF_BYTES; it
\* touches neither the engine nor the hasher; and hashBytes32 of verify_signer
\* computes the same function.
C18_LeafIndex ==
  /\ fn.name \in {"pubkeyToIndex", "hashBytes32"} =>
       /\ fn.out = poseidonHash2(LittleEndian(SubSeq(fn.in, 1, HALF_BYTES), BYTE_BASE),
                                 LittleEndian(SubSeq(fn.in, HALF_BYTES + 1, PUBKEY_BYTES),
                                              BYTE_BASE))
       /\ pubkeyToIndex(fn.in) = hashBytes32(fn.in)
  /\ leaves = <<>> /\ defaultHashes = constructor /\ call = NoCall
  /\ poseidonInstance = 1 /\ buildCount = 1

\* pubkeyToIndex was applied to a public key whose two halves differ and whose
\* bytes within a half differ.
C18_Witness ==
  /\ fn.name = "pubkeyToIndex"
  /\ fn.in[1] # fn.in[2]
  /\ SubSeq(fn.in, 1, HALF_BYTES) # SubSeq(fn.in, HALF_BYTES + 1, PUBKEY_BYTES)

\* ---- C19 ---------------------------------------------------------------
\* C19: for a field value f below 256^ROOT_BYTES, fieldToHex(f) is "0x"
\* followed by exactly 2*ROOT_BYTES lowercase hex digits whose big-endian value
\* is f, and the root buffer decoded from it has exactly ROOT_BYTES bytes whose
\* big-endian value is f.
C19_FieldToHex ==
  fn.name = "fieldToHex" =>
    LET hex == fn.out.hex
        digits == SubSeq(hex, 3, Len(hex))
        Lower == {"0", "1", "2", "3", "4", "5", "6", "7", "8", "9",
                  "a", "b", "c", "d", "e", "f"}
    IN /\ Len(hex) = 2 + 2 * ROOT_BYTES
       /\ hex[1] = "0" /\ hex[2] = "x"
       /\ \A k \in 1..Len(digits) : digits[k] \in Lower
       /\ parseInt16(digits) = fn.in
       /\ Len(fn.out.buffer) = ROOT_BYTES
       /\ \A k \in 1..Len(fn.out.buffer) : fn.out.buffer[k] \in 0..255
       /\ BigEndian(fn.out.buffer, 256) = fn.in

\* fieldToHex was applied to a value that needs padding and has a digit above 9.
C19_Witness ==
  /\ fn.name = "fieldToHex"
  /\ fn.in > 9
  /\ fn.in < Pow(HexRadix, 2 * ROOT_BYTES - 1)
  /\ fn.out.hex[3] = "0"
  /\ \E k \in 3..Len(fn.out.hex) : fn.out.hex[k] \in {"a", "b", "c", "d", "e", "f"}

\* ---- C20 ---------------------------------------------------------------
\* C20: createInstructionData(p) has len(p.proof) + len(p.publicWitness) bytes,
\* the first len(p.proof) of them p.proof and the rest p.publicWitness, and p
\* is as it was.
C20_CreateInstructionData ==
  fn.name = "createInstructionData" =>
    LET p == fn.in
    IN /\ Len(fn.out) = Len(p.proof) + Len(p.publicWitness)
       /\ SubSeq(fn.out, 1, Len(p.proof)) = p.proof
       /\ SubSeq(fn.out, Len(p.proof) + 1, Len(fn.out)) = p.publicWitness

\* createInstructionData was applied to a proof and a public witness that are
\* not empty and differ.
C20_Witness ==
  /\ fn.name = "createInstructionData"
  /\ Len(fn.in.proof) > 0
  /\ Len(fn.in.publicWitness) > 0
  /\ fn.in.proof # fn.in.publicWitness
  /\ Len(fn.out) = Len(fn.in.proof) + Len(fn.in.publicWitness)

\* ========================================================================
\* The fold: the dense tree, the level maps, the positions
\* ========================================================================

\* The node at position pos of level level in the fully materialized tree over
\* the leaf map lv: a leaf is the stored value or 0, an inner node the hash of
\* its left (even) and right (odd) child.
RECURSIVE denseNode(_, _, _)
denseNode(lv, level, pos) ==
  IF level = 0 THEN MapGetOr(lv, toString(pos), 0)
  ELSE poseidonHash2(denseNode(lv, level - 1, 2 * pos),
                     denseNode(lv, level - 1, 2 * pos + 1))

\* ---- C21 ---------------------------------------------------------------
\* C21: getRoot() is the root of the fully materialized tree of depth
\* TREE_DEPTH whose leaf at each inserted index holds the stored value and
\* whose other leaves hold 0.
C21_DenseRoot == call.op = "getRoot" => ret = denseNode(leaves, TREE_DEPTH, 0)

\* The root was asked of a tree of three leaves, two of them neighbours, not
\* all of the same value.
C21_Witness ==
  /\ call.op = "getRoot"
  /\ Len(leaves) >= 3
  /\ SomePairMeets
  /\ \E i, j \in 1..Len(leaves) : leaves[i][2] # leaves[j][2]

\* The level maps of getRoot's fold: level 0 is the leaf map, level L + 1 one
\* pass over level L.
RECURSIVE getRootLevelAt(_, _, _)
getRootLevelAt(lv, dh, level) ==
  IF level = 0 THEN lv
  ELSE getRootNextLevel(getRootLevelAt(lv, dh, level - 1), dh, level - 1, 1, <<>>)

\* The parent keys poseidonHash2 is invoked for in one pass of getRoot over
\* currentLevel, in the order of the invocations: the body of the inner loop
\* hashes once for every entry.
getRootHashedParents(currentLevel) ==
  [i \in 1..Len(currentLevel) |-> toString(BigInt(currentLevel[i][1]) \div 2)]

\* ---- C22 ---------------------------------------------------------------
\* C22: in getRoot's fold poseidonHash2 is invoked exactly once for each parent
\* index of a level, also when both children of the parent are materialized
\* at that level.
C22_ParentHashedOnce ==
  call.op = "getRoot" /\ leaves # <<>> =>
    \A level \in 0..(TREE_DEPTH - 1) :
      LET hashed == getRootHashedParents(getRootLevelAt(leaves, defaultHashes, level))
      IN \A i, j \in 1..Len(hashed) : hashed[i] = hashed[j] => i = j

\* The level maps of getMerkleProof's fold.
RECURSIVE proofLevelAt(_, _, _)
proofLevelAt(lv, dh, level) ==
  IF level = 0 THEN lv
  ELSE proofNextLevel(proofLevelAt(lv, dh, level - 1), dh, level - 1, 1, <<>>, {})

\* pos with its lowest bit flipped.
flipLowestBit(pos) == IF pos % 2 = 1 THEN pos - 1 ELSE pos + 1

\* ---- C23 ---------------------------------------------------------------
\* C23: at every level 0..TREE_DEPTH the level map getMerkleProof builds is
\* the level map getRoot builds, and siblings[L] is getRoot's value of the
\* node at (index >> L) with its lowest bit flipped, or defaultHashes[L] when
\* getRoot's level L has no such node.
C23_SameFold ==
  call.op = "getMerkleProof" =>
    /\ \A level \in 0..TREE_DEPTH :
         proofLevelAt(leaves, defaultHashes, level)
           = getRootLevelAt(leaves, defaultHashes, level)
    /\ \A level \in 0..(TREE_DEPTH - 1) :
         ret.siblings[level + 1]
           = MapGetOr(getRootLevelAt(leaves, defaultHashes, level),
                      toString(flipLowestBit(pubkeyToIndex(call.pubkey) \div Pow(2, level))),
                      defaultHashes[level + 1])

\* A proof was asked of a tree in which getRoot hashes some parent twice, and
\* some sibling of the proof is a materialized node.
C23_Witness ==
  /\ call.op = "getMerkleProof"
  /\ \E level \in 0..(TREE_DEPTH - 1) :
       LET hashed == getRootHashedParents(getRootLevelAt(leaves, defaultHashes, level))
       IN \E i, j \in 1..Len(hashed) : i # j /\ hashed[i] = hashed[j]
  /\ \E level \in 0..(TREE_DEPTH - 1) :
       MapHas(getRootLevelAt(leaves, defaultHashes, level),
              toString(flipLowestBit(pubkeyToIndex(call.pubkey) \div Pow(2, level))))

\* ---- C24 ---------------------------------------------------------------
\* C24: for every leaf index below 2^TREE_DEPTH and every level L below
\* TREE_DEPTH, the position getMerkleProof computes from the path bits is
\* floor(index / 2^L), the side is right exactly when bit L of the index is 1,
\* and the sibling position is the position with its lowest bit flipped
\* (one less when right, one more when left), never negative.
C24_PosAtLevel ==
  fn.name = "posAtLevel" =>
    LET index == fn.in.index
        level == fn.in.level
    IN /\ fn.out.posAtLevel = index \div Pow(2, level)
       /\ fn.out.isRight = ((index \div Pow(2, level)) % 2 = 1)
       /\ fn.out.siblingPos = flipLowestBit(fn.out.posAtLevel)
       /\ fn.out.siblingPos = (IF fn.out.isRight THEN fn.out.posAtLevel - 1
                               ELSE fn.out.posAtLevel + 1)
       /\ fn.out.siblingPos >= 0

\* The position was computed above the leaf level for an index with a 1 bit
\* below the level and one at it.
C24_Witness ==
  /\ fn.name = "posAtLevel"
  /\ fn.in.level > 0
  /\ fn.in.index % 2 = 1
  /\ fn.out.isRight
  /\ fn.out.posAtLevel > 1

\* ---- C25 ---------------------------------------------------------------
\* C25: when at least one leaf is materialized, every level map of getRoot's
\* fold is non-empty and no larger than the map of the level below, and the
\* map after TREE_DEPTH folds holds exactly one entry, keyed by 0, whose value
\* getRoot returns: the fallback to defaultHashes[TREE_DEPTH] is not taken.
C25_LevelsShrinkToRoot ==
  call.op = "getRoot" /\ leaves # <<>> =>
    /\ \A level \in 1..TREE_DEPTH :
         /\ Len(getRootLevelAt(leaves, defaultHashes, level)) >= 1
         /\ Len(getRootLevelAt(leaves, defaultHashes, level))
              <= Len(getRootLevelAt(leaves, defaultHashes, level - 1))
    /\ LET top == getRootLevelAt(leaves, defaultHashes, TREE_DEPTH)
       IN /\ Len(top) = 1
          /\ top[1][1] = toString(0)
          /\ ret = top[1][2]

\* The root was asked of a tree of three leaves whose fold has a level smaller
\* than the one below.
C25_Witness ==
  /\ call.op = "getRoot"
  /\ Len(leaves) >= 3
  /\ \E level \in 1..(TREE_DEPTH - 1) :
       /\ Len(getRootLevelAt(leaves, defaultHashes, level)) >= 2
       /\ Len(getRootLevelAt(leaves, defaultHashes, level))
            < Len(getRootLevelAt(leaves, defaultHashes, level - 1))

\* ========================================================================
\* Leaves that hold 0
\* ========================================================================

\* All that the queries tell of a tree: its root and, for every public key,
\* the stored value, the blacklist flag and the proof.
Observations(lv, dh) ==
  [root |-> getRoot(lv, dh),
   get |-> [pubkey \in Identities |-> get(lv, pubkey)],
   isBlacklisted |-> [pubkey \in Identities |-> isBlacklisted(lv, pubkey)],
   proof |-> [pubkey \in Identities |-> getMerkleProof(lv, dh, pubkey)]]

\* C26 as claimed: an insert of value 0 changes nothing the queries tell, and a
\* tree whose materialized leaves all hold 0 has the empty root.
C26_ZeroInsertUnobservable ==
  /\ [][(call'.op = "insert" /\ insertValue(call'.args) = 0)
          => Observations(leaves', defaultHashes') = Observations(leaves, defaultHashes)]_vars
  /\ []((\A i \in 1..Len(leaves) : leaves[i][2] = 0)
          => getRoot(leaves, defaultHashes) = getEmptyRoot(defaultHashes))

\* C26 as amended: an insert of value 0 at a leaf index that holds 0 (no leaf
\* there, or a leaf of value 0) changes nothing the queries tell (it leaves the
\* engine as it was, or adds a leaf no query tells from none), and a tree whose
\* materialized leaves all hold 0 has the empty root.
C26_ZeroInsertOverZeroUnobservable ==
  /\ [][(/\ call'.op = "insert"
         /\ insertValue(call'.args) = 0
         /\ MapGetOr(leaves, toString(pubkeyToIndex(call'.pubkey)), 0) = 0)
          => \/ leaves' = leaves /\ defaultHashes' = defaultHashes
             \/ Observations(leaves', defaultHashes') = Observations(leaves, defaultHashes)]_vars
  /\ []((\A i \in 1..Len(leaves) : leaves[i][2] = 0)
          => getRoot(leaves, defaultHashes) = getEmptyRoot(defaultHashes))

\* A 0 was inserted as a new leaf beside leaves that hold other values.
C26_Witness ==
  /\ call.op = "insert"
  /\ insertValue(call.args) = 0
  /\ Len(leaves) >= 3
  /\ leaves[Len(leaves)] = <<toString(pubkeyToIndex(call.pubkey)), 0>>
  /\ \E i \in 1..Len(leaves) : leaves[i][2] # 0

\* ------------------------------------------------------ proof generation
\* lib/proof.ts and the circuits' proof helpers: Prover.toml is written, nargo
\* and sunspot are run as child processes, the files sunspot wrote are read.
\* A file of the circuit directory is modelled by the number of the call whose
\* inputs it was derived from, so that a file an earlier call left behind is
\* told apart from one this call produced.

\* How many client-side calls (or runs of a client program) a behaviour makes.
MaxRuns == 2

\* execSync(command, options) throws when the child exits with a status
\* other than 0, and returns otherwise.
execSyncThrows_Never(status) == FALSE
execSyncThrows(status) == status # 0

\* What the world outside the program does during one call: whether
\* Prover.toml can be written, the exit status nargo and sunspot end with when
\* nothing is wrong with what they are given, and whether a failing sunspot
\* had already written the .proof file when it failed.
ExitStatuses == {0, 1}
ProofEnvs == [writable : BOOLEAN, nargo : ExitStatuses, sunspot : ExitStatuses,
              partial : BOOLEAN]
\* The inputs of a circuit, by the one thing about them a run depends on:
\* whether they satisfy the circuit's assertions.
ProofInputs == [satisfying : BOOLEAN]

\* The position of a call: the circuit directory, the steps taken so far, the
\* message of the error in flight ("" for none), the returned value (<<>>
\* for none yet).
Started(d) == [disk |-> d, steps |-> <<>>, thrown |-> "", out |-> <<>>]
Throw(st, message) == [st EXCEPT !.thrown = message]
Taking(st, step) == [st EXCEPT !.steps = Append(@, step)]

\* fs.writeFileSync(getProverTomlPath(config), ...): the file now holds this
\* call's inputs, or the write throws.
writeProverToml(st, run, env) ==
  IF st.thrown # "" THEN st
  ELSE LET s == Taking(st, "writeProverToml") IN
       IF env.writable THEN [s EXCEPT !.disk.toml = run]
       ELSE Throw(s, "EACCES: permission denied, open Prover.toml")
writeSimpleProverToml(st, run, env) == writeProverToml(st, run, env)
writeVerifySignerProverToml(st, run, env) == writeProverToml(st, run, env)

\* The status `nargo execute` ends with: it fails on inputs that break an
\* assertion of the circuit; on success it has written the witness of the
\* inputs Prover.toml holds to target/<name>.gz.
nargoStatus(d, input, env) == IF input.satisfying /\ d.toml # 0 THEN env.nargo ELSE 1
generateWitness(st, input, env) ==
  IF st.thrown # "" THEN st
  ELSE LET s == Taking(st, "nargo execute")
           status == nargoStatus(st.disk, input, env)
           ran == IF status = 0 THEN [s EXCEPT !.disk.gz = st.disk.toml] ELSE s
       IN  IF execSyncThrows(status) THEN Throw(ran, "Command failed: nargo execute")
           ELSE ran

\* The status `sunspot prove <acir> <witness> <ccs> <pk>` ends with: it fails
\* without a witness file; on success it has written the proof of the
\* witness in target/<name>.gz to <name>.proof and <name>.pw.
sunspotStatus(d, env) == IF d.gz # 0 THEN env.sunspot ELSE 1
generateGroth16Proof(st, env) ==
  IF st.thrown # "" THEN st
  ELSE LET s == Taking(st, "sunspot prove")
           status == sunspotStatus(st.disk, env)
           ran == IF status = 0
                  THEN [s EXCEPT !.disk.proof = st.disk.gz, !.disk.pw = st.disk.gz]
                  ELSE IF env.partial /\ st.disk.gz # 0
                  THEN [s EXCEPT !.disk.proof = st.disk.gz]
                  ELSE s
       IN  IF execSyncThrows(status) THEN Throw(ran, "Command failed: sunspot prove")
           ELSE ran

\* readProofFiles: fs.readFileSync of the .proof and then of the .pw file,
\* each throwing when the file does not exist.
readProofFiles(st) ==
  IF st.thrown # "" THEN st
  ELSE LET s == Taking(st, "readProofFiles") IN
       IF st.disk.proof = 0 \/ st.disk.pw = 0
       THEN Throw(s, "ENOENT: no such file or directory")
       ELSE [s EXCEPT !.out = <<[proof |-> st.disk.proof,
                                 publicWitness |-> st.disk.pw]>>]

\* lib/proof.ts generateProofWithInputs.
generateProofWithInputs(d, run, input, env) ==
  readProofFiles(
    generateGroth16Proof(
      generateWitness(
        writeSimpleProverToml(Started(d), run, env), input, env), env))

\* proof.helper.ts generateProof: hashBytes32 computes the message commitment
\* first and needs the hasher.
generateProof(d, instance, run, input, env) ==
  LET committed == IF getPoseidonThrows(instance)
                   THEN Throw(Started(d), PoseidonError)
                   ELSE Started(d)
  IN  readProofFiles(
        generateGroth16Proof(
          generateWitness(
            writeVerifySignerProverToml(committed, run, env), input, env), env))

\* What a call leaves in proc.
ProcOf(op, in, st, printed, exit) ==
  [op |-> op, in |-> in, steps |-> st.steps, printed |-> printed,
   out |-> st.out, thrown |-> st.thrown, exit |-> exit]

GenerateProofWithInputs ==
  \E input \in ProofInputs, env \in ProofEnvs :
    LET st == generateProofWithInputs(disk, runs + 1, input, env) IN
    /\ runs < MaxRuns
    /\ runs' = runs + 1
    /\ disk' = st.disk
    /\ proc' = ProcOf("generateProofWithInputs", <<input, env>>, st, <<>>, -1)
    /\ UNCHANGED <<sent, treeVars, hasherVars, fn>>

GenerateProof ==
  \E input \in ProofInputs, env \in ProofEnvs :
    LET st == generateProof(disk, poseidonInstance, runs + 1, input, env) IN
    /\ runs < MaxRuns
    /\ runs' = runs + 1
    /\ disk' = st.disk
    /\ proc' = ProcOf("generateProof", <<input, env>>, st, <<>>, -1)
    /\ UNCHANGED <<sent, treeVars, hasherVars, fn>>

ProofSteps == <<"writeProverToml", "nargo execute", "sunspot prove", "readProofFiles">>
ProofOps == {"generateProofWithInputs", "generateProof"}
IsPrefix(s, t) == Len(s) <= Len(t) /\ s = SubSeq(t, 1, Len(s))
\* The step at which the world made the call fail, 0 when nothing failed:
\* read off what the call was given, not off what it reported.
FailingStep(in) ==
  LET input == in[1]
      env == in[2]
  IN  IF ~env.writable THEN 1
      ELSE IF ~input.satisfying \/ env.nargo # 0 THEN 2
      ELSE IF env.sunspot # 0 THEN 3
      ELSE 0

\* C27: proof generation takes its steps in the order write Prover.toml,
\* nargo execute, sunspot prove, read the proof files; a step that fails is
\* the last one taken and the call returns no ProofResult, and a ProofResult
\* that is returned holds the proof and public witness of this very call,
\* never files an earlier call left in the circuit directory.
C27_ProofStepsInOrder ==
  proc.op \in ProofOps =>
    /\ IsPrefix(proc.steps, ProofSteps)
    /\ LET k == FailingStep(proc.in) IN
       IF k # 0
       THEN proc.steps = SubSeq(ProofSteps, 1, k) /\ proc.out = <<>> /\ proc.thrown # ""
       ELSE proc.steps = ProofSteps /\ proc.thrown = ""
            /\ proc.out = <<[proof |-> runs, publicWitness |-> runs]>>

\* A call fails at nargo or sunspot while an earlier call's proof files are
\* still in the circuit directory.
C27_Witness ==
  /\ proc.op \in ProofOps
  /\ FailingStep(proc.in) \in {2, 3}
  /\ disk.proof \in 1..(runs - 1)
  /\ disk.pw \in 1..(runs - 1)

\* -------------------------------------------------- on-chain verification
\* lib/verify.ts verifyOnChain: the wallet is loaded, its balance is asked
\* for, a transaction carrying the instruction data is built, signed, sent
\* and confirmed.

\* lamports(10_000_000n): the least balance verifyOnChain goes on with.
MIN_BALANCE == 10000000
insufficientBalance_Never(balance) == FALSE
insufficientBalance(balance) == balance < MIN_BALANCE

Balances == {MIN_BALANCE - 1, MIN_BALANCE, MIN_BALANCE + 1}
\* The requests verifyOnChain makes of the RPC node, in the order it makes them.
RpcCalls == <<"getBalance", "getLatestBlockhash", "sendAndConfirm">>
\* What the world outside the program does during one call: whether the
\* wallet file exists and holds a keypair, the balance the node reports, and
\* the request at which the node fails (0 for none).
VerifyEnvs == [walletExists : BOOLEAN, keypairValid : BOOLEAN, balance : Balances,
               rpcFailsAt : 0..Len(RpcCalls)]

VerifyStarted(sentBefore) == [sent |-> sentBefore, steps |-> <<>>, thrown |-> "", out |-> <<>>]
RpcError(request) == IF request = 1 THEN "RPC error: getBalance"
                     ELSE IF request = 2 THEN "RPC error: getLatestBlockhash"
                     ELSE "Transaction failed: sendAndConfirm"

\* if (!fs.existsSync(config.walletPath)) throw ...; then the keypair is
\* parsed from the file.
loadWallet(st, env) ==
  LET s == Taking(st, "existsSync") IN
  IF ~env.walletExists THEN Throw(s, "Wallet not found")
  ELSE LET r == Taking(s, "readWallet") IN
       IF env.keypairValid THEN r ELSE Throw(r, "Invalid keypair")

\* await rpc.getBalance(wallet.address).send() and the test of the balance.
checkBalance(st, env) ==
  IF st.thrown # "" THEN st
  ELSE LET s == Taking(st, "getBalance") IN
       IF env.rpcFailsAt = 1 THEN Throw(s, RpcError(1))
       ELSE IF insufficientBalance(env.balance)
       THEN Throw(s, "Insufficient balance. Run: solana airdrop 1")
       ELSE s

\* await rpc.getLatestBlockhash().send(), the transaction message and its
\* signing.
buildAndSign(st, env) ==
  IF st.thrown # "" THEN st
  ELSE LET s == Taking(st, "getLatestBlockhash") IN
       IF env.rpcFailsAt = 2 THEN Throw(s, RpcError(2))
       ELSE Taking(Taking(s, "build"), "sign")

\* await sendAndConfirm(signedTransaction, ...) and the returned signature:
\* the transaction is the run's, and so is its signature. The verifier
\* program rejects a corrupted proof, which makes sendAndConfirm throw.
sendAndReturn(st, instructionData, run, env) ==
  IF st.thrown # "" THEN st
  ELSE LET s == [Taking(st, "sendAndConfirm") EXCEPT
                   !.sent = Append(@, [sig |-> run, data |-> instructionData])]
       IN  IF env.rpcFailsAt = 3 \/ instructionData.corrupt THEN Throw(s, RpcError(3))
           ELSE [s EXCEPT !.out = <<run>>]

verifyOnChain(sentBefore, instructionData, run, env) ==
  sendAndReturn(
    buildAndSign(
      checkBalance(
        loadWallet(VerifyStarted(sentBefore), env), env), env),
    instructionData, run, env)

\* The instruction data handed over, by the proof it was made of: the run
\* whose proof files it concatenates, and whether a byte of it was flipped.
InstructionDatas == [proof : 1..MaxRuns, corrupt : BOOLEAN]
VerifyOnChain ==
  \E instructionData \in InstructionDatas, env \in VerifyEnvs :
    LET st == verifyOnChain(sent, instructionData, runs + 1, env) IN
    /\ runs < MaxRuns
    /\ runs' = runs + 1
    /\ sent' = st.sent
    /\ proc' = ProcOf("verifyOnChain", <<instructionData, env>>, st, <<>>, -1)
    /\ UNCHANGED <<disk, treeVars, hasherVars, fn>>

Contains(s, x) == \E i \in 1..Len(s) : s[i] = x
TransactionSteps == {"getLatestBlockhash", "build", "sign", "sendAndConfirm"}

\* C28: verifyOnChain sends no transaction unless its preconditions hold:
\* without a wallet file it throws before any request to the node, with a
\* reported balance below 10,000,000 lamports it throws before a transaction
\* is built, signed or sent, and a signature is returned only after
\* sendAndConfirm completed successfully.
C28_NoSendUnlessPreconditions ==
  /\ [](proc.op = "verifyOnChain" =>
          LET env == proc.in[2] IN
          /\ ~env.walletExists =>
               /\ proc.thrown = "Wallet not found"
               /\ \A i \in 1..Len(RpcCalls) : ~Contains(proc.steps, RpcCalls[i])
          /\ (Contains(proc.steps, "getBalance") /\ env.rpcFailsAt # 1
              /\ env.balance < MIN_BALANCE) =>
               /\ proc.thrown = "Insufficient balance. Run: solana airdrop 1"
               /\ \A step \in TransactionSteps : ~Contains(proc.steps, step)
          /\ proc.out # <<>> =>
               /\ proc.steps[Len(proc.steps)] = "sendAndConfirm"
               /\ env.rpcFailsAt = 0
               /\ ~proc.in[1].corrupt
               /\ sent[Len(sent)].sig = proc.out[1])
  /\ [][proc'.op = "verifyOnChain" /\ runs' # runs
        /\ (~proc'.in[2].walletExists \/ proc'.in[2].balance < MIN_BALANCE)
        => sent' = sent]_vars

\* A call on a wallet holding one lamport too few has thrown, and one on a
\* missing wallet has thrown, after an earlier call did send a transaction.
C28_Witness ==
  /\ proc.op = "verifyOnChain"
  /\ proc.in[2].walletExists /\ proc.in[2].keypairValid
  /\ proc.in[2].rpcFailsAt = 0
  /\ proc.in[2].balance = MIN_BALANCE - 1
  /\ proc.thrown # ""
  /\ sent # <<>>

\* ------------------------------------------------- the circuit-one client
\* circuits/one/client: main() reads x and y off the command line, refuses
\* equal values, generates the proof and has it verified on chain.
\* A command-line argument is the sequence of its characters.
DecimalChars == <<"0", "1", "2", "3", "4", "5", "6", "7", "8", "9">>
IsDecimalChar(c) == \E d \in 1..Len(DecimalChars) : DecimalChars[d] = c
DigitValue(c) == (CHOOSE d \in 1..Len(DecimalChars) : DecimalChars[d] = c) - 1

\* A JS number, as far as parseInt can give one: NaN or an integer.
NaN == [nan |-> TRUE, n |-> 0]
Number(n) == [nan |-> FALSE, n |-> n]
\* x === y on numbers: NaN is equal to nothing, itself included.
strictEquals_Never(a, b) == FALSE
strictEquals(a, b) == ~a.nan /\ ~b.nan /\ a.n = b.n

\* The value of the longest prefix of decimal digits of str from position i
\* on, and how many digits it has.
RECURSIVE parseDigits(_, _, _, _)
parseDigits(str, i, value, count) ==
  IF i > Len(str) \/ ~IsDecimalChar(str[i]) THEN [value |-> value, count |-> count]
  ELSE parseDigits(str, i + 1, 10 * value + DigitValue(str[i]), count + 1)

\* parseInt(string) without a radix, on strings free of white space and of
\* a 0x prefix: an optional sign, then the longest prefix of decimal digits;
\* NaN when there is no digit.
parseInt(str) ==
  LET negative == Len(str) > 0 /\ str[1] = "-"
      signed == Len(str) > 0 /\ str[1] \in {"-", "+"}
      digits == parseDigits(str, IF signed THEN 2 ELSE 1, 0, 0)
  IN  IF digits.count = 0 THEN NaN
      ELSE Number(IF negative THEN 0 - digits.value ELSE digits.value)

CorruptFlag == <<"-", "-", "c", "o", "r", "r", "u", "p", "t">>
\* a.startsWith("--")
startsWithDashes(a) == Len(a) >= 2 /\ a[1] = "-" /\ a[2] = "-"
Includes(s, x) == \E i \in 1..Len(s) : s[i] = x
\* args.filter((a) => !a.startsWith("--"))
numArgsOf(args) == SelectSeq(args, LAMBDA a : ~startsWithDashes(a))
\* numArgs[i] ? parseInt(numArgs[i]) : fallback -- a missing argument and the
\* empty string are both falsy.
argOrDefault(numArgs, i, fallback) ==
  IF Len(numArgs) >= i /\ numArgs[i] # <<>> THEN parseInt(numArgs[i])
  ELSE Number(fallback)
parsedX(args) == argOrDefault(numArgsOf(args), 1, 1)
parsedY(args) == argOrDefault(numArgsOf(args), 2, 2)

\* The circuit asserts x != y on two field elements: Prover.toml satisfies
\* it when both values are numbers and differ.
circuitOneInputs(args) ==
  LET x == parsedX(args)
      y == parsedY(args)
  IN  [satisfying |-> ~x.nan /\ ~y.nan /\ x.n # y.n]

\* What one run of a client program leaves behind.
Exited(d, sentNow, steps, printed, status) ==
  [disk |-> d, sent |-> sentNow, steps |-> steps, printed |-> printed,
   thrown |-> "", out |-> <<>>, exit |-> status]

\* main() of the circuit-one client, to the exit of the process.
circuitOneMain(d, sentBefore, run, args, penv, venv) ==
  LET corrupt == Includes(args, CorruptFlag)
      x == parsedX(args)
      y == parsedY(args)
  IN  IF strictEquals(x, y)
      THEN Exited(d, sentBefore, <<>>, <<"Error: x must not equal y">>, 1)
      ELSE
        LET p == generateProofWithInputs(d, run, circuitOneInputs(args), penv)
        IN  IF p.thrown # ""
            THEN Exited(p.disk, sentBefore, p.steps, <<"Error: " \o p.thrown>>, 1)
            ELSE
              LET instructionData == [proof |-> p.out[1].proof, corrupt |-> corrupt]
                  v == verifyOnChain(sentBefore, instructionData, run, venv)
              IN  IF v.thrown # ""
                  THEN Exited(p.disk, v.sent, p.steps \o v.steps,
                              <<"Error: " \o v.thrown>>, 1)
                  ELSE Exited(p.disk, v.sent, p.steps \o v.steps,
                              <<"Proof verified successfully on-chain!">>, 0)

Arg1 == <<"1">>
Arg2 == <<"2">>
Arg01 == <<"0", "1">>
ArgMinus1 == <<"-", "1">>
ArgA == <<"a">>
Arg1a == <<"1", "a">>
ArgEmpty == <<>>
ArgLists == {<<>>, <<Arg2>>, <<Arg1, Arg1>>, <<Arg1, Arg01>>,
             <<ArgA, ArgA>>, <<ArgEmpty, Arg1>>, <<CorruptFlag, Arg2, Arg1a>>,
             <<Arg2, CorruptFlag>>, <<ArgMinus1, ArgMinus1>>, <<Arg1a, Arg01>>}

\* The world in which nothing goes wrong.
QuietProofEnv == [writable |-> TRUE, nargo |-> 0, sunspot |-> 0, partial |-> FALSE]
QuietVerifyEnv == [walletExists |-> TRUE, keypairValid |-> TRUE,
                   balance |-> MIN_BALANCE, rpcFailsAt |-> 0]

\* The world as far as a proof generation consults it: what would have
\* happened after the step that fails makes no difference to the call.
ConsultedProofEnvs ==
  {e \in ProofEnvs :
     /\ ~e.writable => e.nargo = 0
     /\ (~e.writable \/ e.nargo # 0) => e.sunspot = 0
     /\ (~e.writable \/ e.nargo # 0 \/ e.sunspot = 0) => ~e.partial}

\* The same for a verification on chain.
ConsultedVerifyEnvs ==
  {e \in VerifyEnvs :
     /\ ~e.walletExists => e.keypairValid
     /\ (~e.walletExists \/ ~e.keypairValid) => e.rpcFailsAt = 0 /\ e.balance = MIN_BALANCE
     /\ e.rpcFailsAt = 1 => e.balance = MIN_BALANCE
     /\ e.balance < MIN_BALANCE => e.rpcFailsAt \in {0, 1}}

\* One run of the client. What the world does is drawn only as far as the
\* run gets to consult it: a run that exits before generating a proof, or
\* before going on chain, is the same run whatever would have happened there.
CircuitOneMain ==
  /\ runs < MaxRuns
  /\ \E args \in ArgLists, penv \in ConsultedProofEnvs :
       /\ strictEquals(parsedX(args), parsedY(args)) => penv = QuietProofEnv
       /\ \E venv \in ConsultedVerifyEnvs :
            /\ (\/ strictEquals(parsedX(args), parsedY(args))
                \/ generateProofWithInputs(disk, runs + 1, circuitOneInputs(args),
                                           penv).thrown # "")
                 => venv = QuietVerifyEnv
            /\ LET r == circuitOneMain(disk, sent, runs + 1, args, penv, venv) IN
               /\ runs' = runs + 1
               /\ disk' = r.disk
               /\ sent' = r.sent
               /\ proc' = [op |-> "circuitOneMain", in |-> <<args>>, steps |-> r.steps,
                           printed |-> r.printed, out |-> r.out, thrown |-> r.thrown,
                           exit |-> r.exit]
               /\ UNCHANGED <<treeVars, hasherVars, fn>>

NextCircuitOne == CircuitOneMain
SpecCircuitOne == Init /\ [][NextCircuitOne]_vars

\* The arguments of the run read as the numbers they denote.
SameNumber(a, b) == ~a.nan /\ ~b.nan /\ a.n = b.n

\* C29: the circuit-one client never starts proof generation for equal
\* inputs: when the parsed x equals the parsed y as numbers (1 and 2 standing
\* in for missing arguments; NaN, which parseInt gives for an argument without
\* a leading digit, equals nothing), the run exits with status 1 having taken
\* no step: Prover.toml and the rest of the circuit directory are as they
\* were, neither nargo nor sunspot was run, no transaction was sent.
C29_EqualInputsExitEarly ==
  /\ [](proc.op = "circuitOneMain" /\ SameNumber(parsedX(proc.in[1]), parsedY(proc.in[1]))
          => proc.exit = 1 /\ proc.steps = <<>>)
  /\ [][proc'.op = "circuitOneMain" /\ runs' # runs
        /\ SameNumber(parsedX(proc'.in[1]), parsedY(proc'.in[1]))
        => disk' = disk /\ sent' = sent]_vars

\* The run given x = 2 alone,
\* y taking its default 2, has exited after an earlier run sent a transaction.
C29_Witness ==
  /\ proc.op = "circuitOneMain"
  /\ proc.in[1] = <<Arg2>>
  /\ proc.exit = 1
  /\ sent # <<>>
  /\ disk.proof # 0

\* ----------------------------------------------- the transfer integration test
\* smt_exclusion/client/test-transfer.ts: main() sets the chain state up,
\* lets the allowed user transfer (TEST 1), lets the blacklisted user try
\* (TEST 2), prints its summary and returns; an error that escapes main() is
\* reported by main().catch, which exits with status 1.

\* The requests of main() outside the two transfers, by where they stand:
\* the set-up, the balances read around TEST 1 and before TEST 2, the
\* balances read after TEST 2.
TestStages == <<"setup", "balances of TEST 1", "balances of TEST 2">>
\* What the world does during one run of the test: the stage at which the
\* node fails (0 for none), what each proof generation meets, whether the
\* circuit is satisfied by the blacklisted user's inputs (the deployed circuit
\* rejects a leaf value of 1), and whether each transfer is confirmed.
TestEnvs == [rpcFailsAt : 0..Len(TestStages),
             proof1 : ConsultedProofEnvs, confirmed1 : BOOLEAN,
             satisfying2 : BOOLEAN,
             proof2 : ConsultedProofEnvs, confirmed2 : BOOLEAN]

SummaryTest1 == "Test 1 (Allowed): Transfer succeeded"
SummaryTest2 == "Test 2 (Blacklisted): Transfer blocked (as expected)"

\* main().catch((err) => { console.error("Test failed:", ...); process.exit(1) })
testFailed(d, sentNow, steps, printed, message) ==
  Exited(d, sentNow, steps, Append(printed, "Test failed: " \o message), 1)

\* transferSol: the transaction carrying the proof is signed and handed to
\* sendAndConfirm, which throws unless the transfer is confirmed.
transferSol(sentBefore, sender, proofOf, confirmed) ==
  [sent |-> Append(sentBefore, [sig |-> proofOf, data |-> [proof |-> proofOf, corrupt |-> FALSE]]),
   step |-> "transferSol " \o sender \o (IF confirmed THEN ": confirmed" ELSE ": failed"),
   thrown |-> IF confirmed THEN "" ELSE "Transaction failed: sendAndConfirm"]

\* The summary and the return of main(): both lines are printed whatever
\* TEST 1 and TEST 2 came to, and the process ends with status 0.
summary(d, sentNow, steps, printed) ==
  Exited(d, sentNow, steps, printed \o <<SummaryTest1, SummaryTest2>>, 0)

\* TEST 2 and what follows it, from the state TEST 1 left.
test2AndSummary(d, instance, sentNow, steps, printed, run2, env) ==
  LET p == generateProof(d, instance, run2, [satisfying |-> env.satisfying2], env.proof2)
      generated == p.thrown = ""
      t == transferSol(sentNow, "blacklisted", run2, env.confirmed2)
      \* try { generateProof; transferSol; "UNEXPECTED SUCCESS" } catch { "BLOCKED" }
      blocked == ~generated \/ t.thrown # ""
      steps2 == steps \o p.steps \o (IF generated THEN <<t.step>> ELSE <<>>)
      sent2 == IF generated THEN t.sent ELSE sentNow
      printed2 == Append(printed, IF blocked THEN "BLOCKED (as expected)"
                                  ELSE "UNEXPECTED SUCCESS - this should not happen!")
  IN  IF env.rpcFailsAt = 3
      THEN testFailed(p.disk, sent2, steps2, printed2, RpcError(1))
      ELSE summary(p.disk, sent2, steps2, printed2)

\* main() of the transfer test, to the exit of the process. The proofs of
\* TEST 1 and TEST 2 are the calls run1 and run2 of generateProof.
transferTestMain(d, instance, sentBefore, run1, run2, env) ==
  IF env.rpcFailsAt = 1
  THEN testFailed(d, sentBefore, <<>>, <<>>, RpcError(1))
  ELSE
    LET p == generateProof(d, instance, run1, [satisfying |-> TRUE], env.proof1) IN
    IF p.thrown # ""
    THEN testFailed(p.disk, sentBefore, p.steps, <<>>, p.thrown)
    ELSE
      LET t == transferSol(sentBefore, "allowed", run1, env.confirmed1)
          test1Success == t.thrown = ""
          steps1 == Append(p.steps, t.step)
          printed1 == <<IF test1Success THEN "SUCCESS! Transfer completed" ELSE "FAILED">>
      IN  IF env.rpcFailsAt = 2
          THEN testFailed(p.disk, t.sent, steps1, printed1, RpcError(1))
          ELSE test2AndSummary(p.disk, instance, t.sent, steps1, printed1, run2, env)

\* One run of the test. What the world does is drawn only as far as the run
\* gets to consult it.
QuietTestEnv(env) ==
  /\ env.rpcFailsAt = 1 => env.proof1 = QuietProofEnv
  /\ (env.rpcFailsAt = 1 \/ env.proof1 # QuietProofEnv) =>
       env.confirmed1 /\ env.rpcFailsAt # 2 /\ env.rpcFailsAt # 3
  /\ (env.rpcFailsAt \in {1, 2} \/ env.proof1 # QuietProofEnv) =>
       ~env.satisfying2 /\ env.proof2 = QuietProofEnv
  /\ (env.rpcFailsAt \in {1, 2} \/ env.proof1 # QuietProofEnv
      \/ ~env.satisfying2 \/ env.proof2 # QuietProofEnv) => ~env.confirmed2

TransferTestMain ==
  /\ runs < MaxRuns
  /\ \E env \in TestEnvs :
       /\ QuietTestEnv(env)
       /\ LET r == transferTestMain(disk, poseidonInstance, sent,
                                    2 * runs + 1, 2 * runs + 2, env) IN
          /\ runs' = runs + 1
          /\ disk' = r.disk
          /\ sent' = r.sent
          /\ proc' = [op |-> "transferTestMain", in |-> <<env>>, steps |-> r.steps,
                      printed |-> r.printed, out |-> r.out, thrown |-> r.thrown,
                      exit |-> r.exit]
          /\ UNCHANGED <<treeVars, hasherVars, fn>>

NextTransferTest == TransferTestMain
SpecTransferTest == Init /\ [][NextTransferTest]_vars

\* C30: the transfer test reports "Test 1 (Allowed): Transfer succeeded" only
\* in runs where the allowed user's transfer was confirmed, and "Test 2
\* (Blacklisted): Transfer blocked" only in runs where the blacklisted
\* user's proof generation or transfer failed; a run in which the allowed
\* transfer fails or the blacklisted transfer succeeds does not end with
\* the success summary and exit status 0.
C30_SummaryReportsOutcomes ==
  proc.op = "transferTestMain" =>
    LET allowedConfirmed == Includes(proc.steps, "transferSol allowed: confirmed")
        allowedFailed == Includes(proc.steps, "transferSol allowed: failed")
        blacklistedConfirmed == Includes(proc.steps, "transferSol blacklisted: confirmed")
        blacklistedTried == Len(SelectSeq(proc.steps, LAMBDA s : s = "writeProverToml")) = 2
    IN  /\ Includes(proc.printed, SummaryTest1) => allowedConfirmed
        /\ Includes(proc.printed, SummaryTest2) => blacklistedTried /\ ~blacklistedConfirmed
        /\ allowedFailed \/ blacklistedConfirmed =>
             ~(Includes(proc.printed, SummaryTest1) /\ Includes(proc.printed, SummaryTest2)
               /\ proc.exit = 0)

\* The library calls of the clients, made in any order on one circuit
\* directory and one chain.
NextClient ==
  \/ GenerateProofWithInputs
  \/ GenerateProof
  \/ VerifyOnChain
SpecClient == Init /\ [][NextClient]_vars

====
